---- MODULE Spec2Model ----
(***************************************************************************)
(* A model of the native-XML reader of libabigail (src/src/abg-reader.cc): *)
(* the read_context (depth, declaration stack, the three ID tables), the   *)
(* node builders, the streaming handlers and the unit / corpus / archive   *)
(* drivers, run over bounded families of XML documents.                    *)
(*                                                                         *)
(* Conventions.  A shared_ptr is a handle: an index into the sequence ir   *)
(* of the IR nodes allocated so far, NULL for the null pointer.  A textual *)
(* ID is a natural number, NoId for the empty string (an absent attribute  *)
(* reads as the empty string everywhere in the reader).  An XML element is *)
(* a record [tag, id, tid, defid, declonly, variadic, kids]; the position  *)
(* of an element in its document is its path, the sequence of child        *)
(* indexes leading to it from the root, whose length is the depth libxml   *)
(* reports for it.                                                         *)
(***************************************************************************)
EXTENDS Integers, Sequences, FiniteSets, TLC

VARIABLES
  mode,              \* which entry point runs: "unit", "corpus", "archive", "registry"
  ndebug,            \* whether the build defines NDEBUG (assert() compiled out)
  ub,                \* what the build does on a call through a null pointer
  archive,           \* the input: a sequence of event streams, one per document
  entry,             \* index in archive of the document being read
  pos,               \* the xmlTextReader cursor: index in the current stream
  m_depth,           \* read_context::m_depth
  m_decls_stack,     \* read_context::m_decls_stack, top is the last element
  m_types_map,       \* read_context::m_types_map
  m_fn_tmpl_map,     \* read_context::m_fn_tmpl_map
  m_class_tmpl_map,  \* read_context::m_class_tmpl_map
  ir,                \* the IR nodes allocated so far
  tu,                \* the translation unit being populated (units are numbered)
  corp,              \* the corpus: the units added to it, in order
  pc,                \* position of the driver
  is_ok,             \* the value read_translation_unit_from_input last returned
  result,            \* what the entry point returned ("none" while running)
  log,               \* history of the registry calls (specification RegSpec)
  zip,               \* what libzip answers: whether the archive opens, which entries open
  nb_of_tu_read,     \* the counter of read_corpus_from_archive
  tu_paths,          \* translation_unit::get_path() of each unit, by unit number
  atoi_overflow,     \* what the C library's atoi yields past INT_MAX
  tu_has_address_size, \* whether set_address_size was called on each unit
  corp_path          \* corpus::get_path(), <<>> until set_path is called

vars == <<mode, ndebug, ub, atoi_overflow, archive, entry, pos, m_depth,
          m_decls_stack, m_types_map, m_fn_tmpl_map, m_class_tmpl_map, ir, tu, corp, pc,
          is_ok, result, log, zip, nb_of_tu_read, tu_paths,
          tu_has_address_size, corp_path>>

----------------------------------------------------------------------------
(* Bounds of the model. *)

\* Logical elements (a member wrapper counts with the element it wraps) in
\* the generated body of a unit document.
MaxItems == 3

\* Calls in a history of registry operations.
MaxOps == 3

\* Node handles and IDs offered to the registry operations.
MaxRegNodes == 2

MaxRegIds == 2

\* Enumerators of a generated enum-decl.
MaxEnumerators == 2

\* Children of a generated template declaration.
MaxTemplateChildren == 3

----------------------------------------------------------------------------
(* Values. *)

NULL == 0

NoId == 0

\* First ID handed out by Label to the elements whose ID is left open.
AutoBase == 10

\* Marks, in a generated document, an ID that Label is to choose.
Auto == AutoBase - 1

EmptyMap == [x \in {} |-> NULL]

Max(a, b) == IF a >= b THEN a ELSE b

----------------------------------------------------------------------------
(* XML documents. *)

\* The attributes of an element that the model keeps as texts, by name; an
\* attribute the element does not have is not in the domain.
NoAttrs == [a \in {} |-> <<>>]

El(tag, id, tid, kids) ==
  [tag |-> tag, id |-> id, tid |-> tid, defid |-> NoId, declonly |-> FALSE,
   variadic |-> FALSE, name |-> <<>>, val |-> <<>>, size |-> <<>>,
   path |-> <<>>, attrs |-> NoAttrs, kids |-> kids]

\* XML_NODE_GET_ATTRIBUTE(n, a) is not null.
HasAttribute(n, a) == a \in DOMAIN n.attrs

\* The text "yes".
Yes == <<"y", "e", "s">>

NoNode == El("#text", NoId, NoId, <<>>)

RECURSIVE Size(_)
RECURSIVE SizeAll(_)
Size(n) == 1 + SizeAll(n.kids)
SizeAll(ks) == IF ks = <<>> THEN 0 ELSE Size(Head(ks)) + SizeAll(Tail(ks))

\* Gives every element whose id is Auto a document-unique ID: AutoBase plus
\* its rank in document order.
RECURSIVE Label(_, _)
RECURSIVE LabelAll(_, _)
Label(n, k) ==
  [n EXCEPT !.id = IF n.id = Auto THEN AutoBase + k ELSE n.id,
            !.kids = LabelAll(n.kids, k + 1)]
LabelAll(ks, k) ==
  IF ks = <<>> THEN <<>>
  ELSE <<Label(Head(ks), k)>> \o LabelAll(Tail(ks), k + Size(Head(ks)))

\* The node sequence xmlTextReaderRead walks through: an element node when a
\* tag opens, an end-element node when a non-empty element closes, and, in a
\* document written with line breaks and indentation, a whitespace text
\* node before every child and before the closing tag.
RECURSIVE Events(_, _, _)
RECURSIVE KidsEvents(_, _, _, _)
Events(n, path, pretty) ==
  IF n.kids = <<>>
    THEN << [k |-> "elem", path |-> path, node |-> n, empty |-> TRUE] >>
    ELSE << [k |-> "elem", path |-> path, node |-> n, empty |-> FALSE] >>
         \o KidsEvents(n.kids, path, 1, pretty)
         \o << [k |-> "end", path |-> path, node |-> n, empty |-> FALSE] >>
KidsEvents(ks, path, i, pretty) ==
  LET ws == IF pretty
              THEN << [k |-> "text", path |-> Append(path, i),
                       node |-> NoNode, empty |-> TRUE] >>
              ELSE <<>>
  IN IF i > Len(ks) THEN ws
     ELSE ws \o Events(ks[i], Append(path, i), pretty)
             \o KidsEvents(ks, path, i + 1, pretty)

Depth(ev) == Len(ev.path)

----------------------------------------------------------------------------
(* The xmlTextReader, over the current event stream s. *)

\* XML_READER_GET_NODE_TYPE: "none" before the first read and after the end.
NodeType(s, p) == IF p \in 1..Len(s) THEN s[p].k ELSE "none"

\* xmlTextReaderRead: the new cursor and the status (1 a node was read, 0 no
\* node is left, -1 the parser hit an error).
xmlTextReaderRead(s, p) ==
  IF NodeType(s, p) = "err" THEN [pos |-> p, status |-> -1]
  ELSE IF p < Len(s)
    THEN [pos |-> p + 1, status |-> IF s[p + 1].k = "err" THEN -1 ELSE 1]
    ELSE [pos |-> Len(s) + 1, status |-> 0]

\* Index of the end-element node closing the element at p.
EndOf(s, p) ==
  CHOOSE j \in (p + 1)..Len(s) :
    /\ s[j].k = "end" /\ s[j].path = s[p].path

\* xmlTextReaderNext: the node following the subtree of the current node.
xmlTextReaderNext(s, p) ==
  IF NodeType(s, p) = "elem" /\ ~s[p].empty
    THEN xmlTextReaderRead(s, EndOf(s, p))
    ELSE xmlTextReaderRead(s, p)

----------------------------------------------------------------------------
(* The IR: what the reader needs of it. *)

ScopeKinds ==
  {"global_scope", "namespace_decl", "class_decl", "function_tdecl",
   "class_tdecl"}

\* location(): the unknown location.
UnknownLocation == [file |-> <<>>, line |-> 0, column |-> 0]

\* A fresh IR node.  Three fields are not the program's: elem is the path
\* of the element the node was built from, in the document of unit tu, and
\* stk and cur record the declaration stack and what get_cur_scope
\* returned at the moment the node was pushed.
Node(kind, elem, unit) ==
  [kind |-> kind, scope |-> NULL, ref |-> NULL, tid |-> NoId,
   declonly |-> FALSE, earlier |-> NULL, mbrs |-> <<>>, bases |-> <<>>,
   parms |-> <<>>, enums |-> <<>>, index |-> 0, variadic |-> FALSE,
   pattern |-> NULL, name |-> <<>>, size |-> 0, is_ctor |-> FALSE,
   is_dtor |-> FALSE, is_const |-> FALSE, is_laid_out |-> FALSE,
   offset_in_bits |-> 0, loc |-> UnknownLocation, elem |-> elem,
   tu |-> unit, stk |-> <<>>, cur |-> NULL]

\* The node of Node(kind, elem, unit) constructed with the location r.loc.
NodeAt(kind, elem, unit, r) == [Node(kind, elem, unit) EXCEPT !.loc = r.loc]

is_at_class_scope(c, d) ==
  /\ d # NULL
  /\ c.ir[d].scope # NULL
  /\ c.ir[c.ir[d].scope].kind = "class_decl"

is_global_scope(c, s) == s # NULL /\ c.ir[s].kind = "global_scope"

add_decl_to_scope(c, decl, scope) ==
  IF scope = NULL \/ c.ir[decl].scope # NULL THEN c
  ELSE [c EXCEPT !.ir[decl].scope = scope,
                 !.ir[scope].mbrs = Append(@, decl)]

\* class_decl::add_data_member, add_member_function and
\* add_member_*_template: the member becomes a declaration of the class.
add_member(c, class, decl) == add_decl_to_scope(c, decl, class)

----------------------------------------------------------------------------
(* The read_context.  The builders are operators on a record c holding the *)
(* context (depth, stack, types, fns, cls), the IR heap, the unit being    *)
(* populated, the state st of the process ("ok", or "abort" once abort()   *)
(* was called or an assert() failed) and the value a call returned: ret    *)
(* for a pointer, okb for a bool.                                          *)

Live(c) == c.st = "ok"

Ret(c, h) == [c EXCEPT !.ret = IF Live(c) THEN h ELSE NULL]

RetB(c, b) == [c EXCEPT !.okb = b]

abort(c) == IF Live(c) THEN [c EXCEPT !.st = "abort"] ELSE c

\* Calling a member function through a null shared_ptr is undefined: the
\* build either faults at the call or has compiled the store away.
null_deref(c) ==
  IF Live(c) /\ c.ub = "crash" THEN [c EXCEPT !.st = "crash"] ELSE c

\* assert(cond): aborts the process unless the build defines NDEBUG.
assert(c, cond) == IF Live(c) /\ ~cond /\ ~c.ndebug THEN abort(c) ELSE c

\* new T(...): the handle of the node allocated is Len(c.ir) + 1.
New(c, node) ==
  IF Live(c) THEN [c EXCEPT !.ir = Append(@, node)] ELSE c

get_type_decl(c, id) ==
  IF id \in DOMAIN c.types THEN c.types[id] ELSE NULL

get_fn_tmpl_decl(c, id) ==
  IF id \in DOMAIN c.fns THEN c.fns[id] ELSE NULL

get_class_tmpl_decl(c, id) ==
  IF id \in DOMAIN c.cls THEN c.cls[id] ELSE NULL

get_cur_decl(c) ==
  IF c.stack = <<>> THEN NULL ELSE c.stack[Len(c.stack)]

get_cur_scope(c) ==
  IF get_cur_decl(c) = NULL THEN NULL
  ELSE IF c.ir[get_cur_decl(c)].kind \in ScopeKinds THEN get_cur_decl(c)
  ELSE c.ir[get_cur_decl(c)].scope

\* get_global_scope(d): the global scope the scopes of d lead to.
RECURSIVE get_global_scope(_, _)
get_global_scope(c, d) ==
  IF d = NULL THEN NULL
  ELSE IF c.ir[d].kind = "global_scope" THEN d
  ELSE get_global_scope(c, c.ir[d].scope)

\* The translation unit of the current declaration, NULL when there is
\* none.
get_translation_unit(c) ==
  IF get_global_scope(c, get_cur_decl(c)) # NULL
    THEN c.ir[get_global_scope(c, get_cur_decl(c))].tu
    ELSE NULL

push_decl(c, d) ==
  IF Live(c) THEN [c EXCEPT !.stack = Append(@, d)] ELSE c

pop_decl(c) ==
  IF c.stack = <<>> THEN c
  ELSE [c EXCEPT !.stack = SubSeq(@, 1, Len(@) - 1)]

\* A unit begun without clearing the table of types.
keep_type_map(c) == c

clear_type_map(c) == [c EXCEPT !.types = EmptyMap]

\* An insert that overwrites: operator[] instead of the test of the key.
key_type_decl_overwriting(c, type, id) ==
  IF ~Live(assert(c, type # NULL)) THEN assert(c, type # NULL)
  ELSE RetB([c EXCEPT !.types = (id :> type) @@ @], TRUE)

key_type_decl(c, type, id) ==
  IF ~Live(assert(c, type # NULL)) THEN assert(c, type # NULL)
  ELSE IF id \in DOMAIN c.types THEN RetB(c, FALSE)
  ELSE RetB([c EXCEPT !.types = (id :> type) @@ @], TRUE)

\* A replacement that forgets to erase the old entry first.
key_without_erasing(c, definition, id) ==
  RetB(key_type_decl(c, definition, id), TRUE)

key_replacement_of_type_decl(c, definition, id) ==
  RetB(key_type_decl(
         IF id \in DOMAIN c.types
           THEN [c EXCEPT !.types = [x \in DOMAIN @ \ {id} |-> @[x]]]
           ELSE c,
         definition, id),
       TRUE)

\* A registration that refuses an ID the table of types holds as well.
key_fn_tmpl_decl_in_shared_table(c, fn_tmpl_decl, id) ==
  IF ~Live(assert(c, fn_tmpl_decl # NULL)) THEN assert(c, fn_tmpl_decl # NULL)
  ELSE IF id \in DOMAIN c.fns \cup DOMAIN c.types THEN RetB(c, FALSE)
  ELSE RetB([c EXCEPT !.fns = (id :> fn_tmpl_decl) @@ @], TRUE)

key_fn_tmpl_decl(c, fn_tmpl_decl, id) ==
  IF ~Live(assert(c, fn_tmpl_decl # NULL)) THEN assert(c, fn_tmpl_decl # NULL)
  ELSE IF id \in DOMAIN c.fns THEN RetB(c, FALSE)
  ELSE RetB([c EXCEPT !.fns = (id :> fn_tmpl_decl) @@ @], TRUE)

\* The same overwriting insert, in the table of class templates.
key_class_tmpl_decl_overwriting(c, class_tmpl_decl, id) ==
  IF ~Live(assert(c, class_tmpl_decl # NULL))
    THEN assert(c, class_tmpl_decl # NULL)
  ELSE RetB([c EXCEPT !.cls = (id :> class_tmpl_decl) @@ @], TRUE)

key_class_tmpl_decl(c, class_tmpl_decl, id) ==
  IF ~Live(assert(c, class_tmpl_decl # NULL))
    THEN assert(c, class_tmpl_decl # NULL)
  ELSE IF id \in DOMAIN c.cls THEN RetB(c, FALSE)
  ELSE RetB([c EXCEPT !.cls = (id :> class_tmpl_decl) @@ @], TRUE)

\* The loop without its test of the class scope: one pop per XML level.
RECURSIVE pop_per_level(_, _)
pop_per_level(c, nb) == IF nb = 0 THEN c ELSE pop_per_level(pop_decl(c), nb - 1)

\* The loop with its correction applied from two pops left on.
RECURSIVE pop_loop_from_two(_, _)
pop_loop_from_two(c, nb) ==
  IF nb = 0 THEN c
  ELSE pop_loop_from_two(pop_decl(c),
                         IF is_at_class_scope(c, get_cur_decl(c)) /\ nb > 1
                           THEN nb - 2 ELSE nb - 1)

\* The loop of update_depth_info_of_read_context: nb pops are left to do.
RECURSIVE pop_loop(_, _)
pop_loop(c, nb) ==
  IF nb = 0 THEN c
  ELSE pop_loop(pop_decl(c),
                IF is_at_class_scope(c, get_cur_decl(c)) /\ nb > 2
                  THEN nb - 2 ELSE nb - 1)

\* An update that pops one entry on the way down as well.
update_depth_info_popping_on_descent(c, new_depth) ==
  IF ~Live(c) THEN c
  ELSE [pop_loop(c, IF new_depth > c.depth THEN 1
                    ELSE c.depth - new_depth + 1)
        EXCEPT !.depth = new_depth]

update_depth_info_of_read_context(c, new_depth) ==
  IF ~Live(c) THEN c
  ELSE [(IF new_depth > c.depth THEN c
         ELSE pop_loop(c, c.depth - new_depth + 1))
        EXCEPT !.depth = new_depth]

\* update_read_context(ctxt): the reader's node is ev.
update_read_context(c, ev) ==
  IF ev.k # "elem" THEN c
  ELSE update_depth_info_of_read_context(c, Depth(ev))

\* update_read_context(ctxt, node): the node is the element at path, whose
\* depth xml::get_xml_node_depth counts along its ancestors.
update_read_context_node(c, path) ==
  update_depth_info_of_read_context(c, Len(path))

\* Records, for the properties below, the stack and the scope
\* get_cur_scope() names at the moment decl is pushed; the program keeps no
\* such fields.
seen_from(c, decl) ==
  [c EXCEPT !.ir[decl].stk = c.stack, !.ir[decl].cur = get_cur_scope(c)]

push_decl_to_current_scope(c, decl, add_to_current_scope) ==
  IF ~Live(assert(c, decl # NULL)) THEN assert(c, decl # NULL)
  ELSE push_decl(
         IF add_to_current_scope
           THEN add_decl_to_scope(seen_from(c, decl), decl, get_cur_scope(c))
           ELSE seen_from(c, decl),
         decl)

\* upd is update_depth_info and add is add_to_current_scope, here and below.
push_decl_to_current_scope_node(c, decl, path, upd, add) ==
  push_decl_to_current_scope(
    IF upd THEN update_read_context_node(assert(c, decl # NULL), path)
    ELSE assert(c, decl # NULL),
    decl, add)

\* A push that leaves the type out of the table of types.
push_without_key(c, t, id, add_to_current_scope) ==
  IF ~Live(c) THEN c
  ELSE IF t = NULL THEN RetB(c, FALSE)
  ELSE RetB(push_decl_to_current_scope(c, t, add_to_current_scope), TRUE)

\* Every type of the IR is a declaration, so the cast to decl_base succeeds.
push_and_key_type_decl(c, t, id, add_to_current_scope) ==
  IF ~Live(c) THEN c
  ELSE IF t = NULL THEN RetB(c, FALSE)
  ELSE RetB(key_type_decl(
              push_decl_to_current_scope(c, t, add_to_current_scope), t, id),
            TRUE)

push_and_key_type_decl_node(c, t, id, path, upd, add) ==
  push_and_key_type_decl(
    IF upd THEN update_read_context_node(c, path) ELSE c, t, id, add)

----------------------------------------------------------------------------
(* The node builders.  Each takes the element n found at path and returns  *)
(* the context with ret set to the node built, NULL when the tag is not    *)
(* the builder's own.  A builder that returns NULL has either left the     *)
(* context as it found it or ended the process.                            *)

\* The text of an attribute is the sequence of its characters, an entity
\* reference counting for one; <<>> is the empty text, and the text read
\* for an attribute the element does not have.

\* xml::unescape_xml_string: the entity references become the characters
\* they stand for.
unescape_xml_string(str) ==
  [i \in 1..Len(str) |->
     CASE str[i] = "&lt;" -> "<"
       [] str[i] = "&gt;" -> ">"
       [] str[i] = "&amp;" -> "&"
       [] OTHER -> str[i]]

\* The decimal digits.
Digits ==
  "0" :> 0 @@ "1" :> 1 @@ "2" :> 2 @@ "3" :> 3 @@ "4" :> 4 @@ "5" :> 5
  @@ "6" :> 6 @@ "7" :> 7 @@ "8" :> 8 @@ "9" :> 9

\* The largest int, and the weight of the upper half of its 32 bits.
INT_MAX == 2147483647

HalfWord == 65536

\* strtol on a text of decimal digits, as far as an int holds it: the value
\* of the leading digits, or -1 once the value has passed INT_MAX.
RECURSIVE strtol_in_int(_, _, _)
strtol_in_int(str, i, acc) ==
  IF i > Len(str) \/ str[i] \notin DOMAIN Digits THEN acc
  ELSE IF acc > INT_MAX \div 10
          \/ (acc = INT_MAX \div 10 /\ Digits[str[i]] > INT_MAX % 10)
    THEN -1
  ELSE strtol_in_int(str, i + 1, 10 * acc + Digits[str[i]])

\* The low 32 bits of the value of the leading digits, as two halves of 16
\* bits: what the conversion of strtol's long to int keeps.
RECURSIVE low_bits(_, _, _, _)
low_bits(str, i, hi, lo) ==
  IF i > Len(str) \/ str[i] \notin DOMAIN Digits THEN <<hi, lo>>
  ELSE low_bits(str, i + 1,
                (10 * hi + (10 * lo + Digits[str[i]]) \div HalfWord) % HalfWord,
                (10 * lo + Digits[str[i]]) % HalfWord)

\* The int whose two's complement representation is the 32 bits w.
to_int(w) ==
  IF w[1] < HalfWord \div 2 THEN w[1] * HalfWord + w[2]
  ELSE (w[1] - HalfWord) * HalfWord + w[2]

\* atoi on a text of fewer than 19 characters: the value of its leading
\* decimal digits when an int holds it.  Past INT_MAX the behaviour is
\* undefined: a library that converts strtol's result keeps the low 32
\* bits, one that detects the overflow returns INT_MAX.  The callers store
\* the int in a size_t, which a negative int reaches modulo 2^64; the model
\* keeps the int.
atoi(str) ==
  IF strtol_in_int(str, 1, 0) # -1 THEN strtol_in_int(str, 1, 0)
  ELSE IF atoi_overflow = "truncate" THEN to_int(low_bits(str, 1, 0, 0))
  ELSE INT_MAX

\* The text of the attribute a of n, empty when n does not have it.
AttributeText(n, a) == IF HasAttribute(n, a) THEN n.attrs[a] ELSE <<>>

\* loc_mgr.create_new_location(file, line, column), the line and the column
\* being what atoi makes of the texts l and c.
create_new_location(f, l, c) == [file |-> f, line |-> atoi(l), column |-> atoi(c)]

\* read_location(ctxt, loc), on the element n under the cursor: what it
\* returns, and loc after the call given its value before.
read_location(n, loc) ==
  IF ~HasAttribute(n, "filepath")
    THEN [ret |-> TRUE, loc |-> UnknownLocation]
  ELSE IF ~HasAttribute(n, "line") \/ ~HasAttribute(n, "column")
    THEN [ret |-> FALSE, loc |-> loc]
  ELSE [ret |-> TRUE,
        loc |-> create_new_location(n.attrs["filepath"], n.attrs["line"],
                                    n.attrs["column"])]

\* read_location(ctxt, node, loc): line and column stay 0 when their
\* attribute is absent.
read_location_node(n, loc) ==
  IF AttributeText(n, "filepath") = <<>>
    THEN [ret |-> FALSE, loc |-> loc]
  ELSE [ret |-> TRUE,
        loc |-> create_new_location(n.attrs["filepath"],
                                    AttributeText(n, "line"),
                                    AttributeText(n, "column"))]

\* The handle the next New will return.
Fresh(c) == Len(c.ir) + 1

\* return ok ? decl : nil, ok being what push_and_key_type_decl returned.
RetIf(c, h) == Ret(c, IF c.okb THEN h ELSE NULL)

\* a || b over two builders tried on the same element: b runs only when a
\* returned nil.
OrElse(a, b) == IF a.ret # NULL \/ ~Live(a) THEN a ELSE b

build_function_parameter(c, n, path) ==
  IF ~Live(c) \/ n.tag # "parameter" THEN Ret(c, NULL)
  ELSE LET type == get_type_decl(c, n.tid)
       IN Ret(New(assert(c, type # NULL \/ n.variadic),
                  [Node("parameter", path, c.tu) EXCEPT
                     !.ref = type, !.tid = n.tid, !.variadic = n.variadic]),
              Fresh(c))

\* fn_type->append_parameter(p) when p is not nil.
append_parameter(p, fn) ==
  IF p.ret # NULL THEN [p EXCEPT !.ir[fn].parms = Append(@, p.ret)] ELSE p

\* fn_type->set_return_type(ctxt.get_type_decl(type_id)) when type_id is
\* not empty.
set_return_type(c, fn, type_id) ==
  IF type_id # NoId
    THEN [c EXCEPT !.ir[fn].ref = get_type_decl(c, type_id),
                   !.ir[fn].tid = type_id]
    ELSE c

\* The children loop of build_function_decl, from child i on.
RECURSIVE function_children(_, _, _, _, _)
function_children(c, fn, n, path, i) ==
  IF ~Live(c) \/ i > Len(n.kids) THEN c
  ELSE function_children(
         IF n.kids[i].tag = "parameter"
           THEN append_parameter(
                  build_function_parameter(c, n.kids[i], Append(path, i)), fn)
         ELSE IF n.kids[i].tag = "return"
           THEN set_return_type(c, fn, n.kids[i].tid)
         ELSE c,
         fn, n, path, i + 1)

build_function_decl(c, n, path, as_method_decl, upd, add) ==
  IF ~Live(c) \/ n.tag # "function-decl" THEN Ret(c, NULL)
  ELSE Ret(function_children(
             push_decl_to_current_scope_node(
               New(c, Node(IF as_method_decl # NULL THEN "method_decl"
                           ELSE "function_decl", path, c.tu)),
               Fresh(c), path, upd, add),
             Fresh(c), n, path, 1),
           Fresh(c))

\* A builder of variables that does not look at the name of the element.
build_var_decl_of_any_tag(c, n, path, upd, add) ==
  IF ~Live(c) THEN Ret(c, NULL)
  ELSE Ret(push_decl_to_current_scope_node(
             New(assert(c, get_type_decl(c, n.tid) # NULL),
                 [NodeAt("var_decl", path, c.tu,
                         read_location_node(n, UnknownLocation)) EXCEPT
                    !.ref = get_type_decl(c, n.tid), !.tid = n.tid]),
             Fresh(c), path, upd, add),
           Fresh(c))

build_var_decl(c, n, path, upd, add) ==
  IF ~Live(c) \/ n.tag # "var-decl" THEN Ret(c, NULL)
  ELSE LET underlying_type == get_type_decl(c, n.tid)
       IN Ret(push_decl_to_current_scope_node(
                New(assert(c, underlying_type # NULL),
                    [NodeAt("var_decl", path, c.tu,
                          read_location_node(n, UnknownLocation)) EXCEPT
                       !.ref = underlying_type, !.tid = n.tid]),
                Fresh(c), path, upd, add),
              Fresh(c))

build_type_decl(c, n, path, upd, add) ==
  IF ~Live(c) \/ n.tag # "type-decl" THEN Ret(c, NULL)
  ELSE RetIf(push_and_key_type_decl_node(
               New(assert(c, get_type_decl(c, n.id) = NULL),
                   [NodeAt("type_decl", path, c.tu,
                          read_location_node(n, UnknownLocation)) EXCEPT
                      !.name = unescape_xml_string(n.name),
                      !.size = atoi(n.size)]),
               Fresh(c), n.id, path, upd, add),
             Fresh(c))

\* build_qualified_type_decl, build_pointer_type_def,
\* build_reference_type_def and build_typedef_decl share one body: look the
\* referred type up, assert it, assert the id is new, build, push and key.
\* kind is the IR class they instantiate.
build_referring_type(c, n, path, upd, add, tag, kind) ==
  IF ~Live(c) \/ n.tag # tag THEN Ret(c, NULL)
  ELSE LET referred == get_type_decl(c, n.tid)
       IN RetIf(push_and_key_type_decl_node(
                  New(assert(assert(c, referred # NULL),
                             n.id # NoId /\ get_type_decl(c, n.id) = NULL),
                      [NodeAt(kind, path, c.tu,
                              read_location_node(n, UnknownLocation)) EXCEPT
                         !.ref = referred, !.tid = n.tid]),
                  Fresh(c), n.id, path, upd, add),
                Fresh(c))

build_qualified_type_decl(c, n, path, upd, add) ==
  build_referring_type(c, n, path, upd, add, "qualified-type-def", "qualified_type_def")

build_pointer_type_def(c, n, path, upd, add) ==
  build_referring_type(c, n, path, upd, add, "pointer-type-def", "pointer_type_def")

build_reference_type_def(c, n, path, upd, add) ==
  build_referring_type(c, n, path, upd, add, "reference-type-def", "reference_type_def")

build_typedef_decl(c, n, path, upd, add) ==
  build_referring_type(c, n, path, upd, add, "typedef-decl", "typedef_decl")

\* The children loop of build_enum_type_decl: the type-id of the last
\* underlying-type child that has one, and the enumerators in order.
RECURSIVE enum_base_type_id(_, _)
enum_base_type_id(ks, i) ==
  IF i = 0 THEN NoId
  ELSE IF ks[i].tag = "underlying-type" /\ ks[i].tid # NoId THEN ks[i].tid
  ELSE enum_base_type_id(ks, i - 1)

RECURSIVE enum_enumerators(_, _)
enum_enumerators(ks, i) ==
  IF i > Len(ks) THEN <<>>
  ELSE (IF ks[i].tag = "enumerator"
          THEN << <<unescape_xml_string(ks[i].name), atoi(ks[i].val)>> >>
          ELSE <<>>) \o enum_enumerators(ks, i + 1)

build_enum_type_decl(c, n, path, upd, add) ==
  IF ~Live(c) \/ n.tag # "enum-decl" THEN Ret(c, NULL)
  ELSE LET base_type_id == enum_base_type_id(n.kids, Len(n.kids))
           underlying_type == get_type_decl(c, base_type_id)
       IN RetIf(push_and_key_type_decl_node(
                  New(assert(assert(c, n.id # NoId
                                       /\ get_type_decl(c, n.id) = NULL),
                             underlying_type # NULL),
                      [NodeAt("enum_type_decl", path, c.tu,
                          read_location_node(n, UnknownLocation)) EXCEPT
                         !.ref = underlying_type, !.tid = base_type_id,
                         !.enums = enum_enumerators(n.kids, 1)]),
                  Fresh(c), n.id, path, upd, add),
                Fresh(c))

----------------------------------------------------------------------------
(* Template parameters, templates, classes and the type alternation.       *)

\* dynamic_pointer_cast<T>(h): h when the node is a T, NULL otherwise.
cast(c, h, kinds) == IF h # NULL /\ c.ir[h].kind \in kinds THEN h ELSE NULL

\* template_tparameter derives from type_tparameter.
TypeTParameterKinds == {"type_tparameter", "template_tparameter"}

\* if (cond) abort();
abort_if(c, cond) == IF cond THEN abort(c) ELSE c

\* if (id.empty()) push_decl_to_current_scope(..)
\* else push_and_key_type_decl(..), both adding to the current scope.
push_or_push_and_key(c, res, id, path, upd) ==
  IF id = NoId THEN push_decl_to_current_scope_node(c, res, path, upd, TRUE)
  ELSE push_and_key_type_decl_node(c, res, id, path, upd, TRUE)

build_type_tparameter(c, n, path, index, upd) ==
  IF ~Live(c) \/ n.tag # "template-type-parameter" THEN Ret(c, NULL)
  ELSE Ret(push_or_push_and_key(
             New(abort_if(
                   assert(c, n.id = NoId \/ get_type_decl(c, n.id) = NULL),
                   n.tid # NoId
                   /\ cast(c, get_type_decl(c, n.tid), TypeTParameterKinds)
                        = NULL),
                 [Node("type_tparameter", path, c.tu) EXCEPT
                    !.index = index]),
             Fresh(c), n.id, path, upd),
           Fresh(c))

build_non_type_tparameter(c, n, path, index, upd) ==
  IF ~Live(c) \/ n.tag # "template-non-type-parameter" THEN Ret(c, NULL)
  ELSE LET type == get_type_decl(c, n.tid)
       IN Ret(push_decl_to_current_scope_node(
                New(abort_if(c, n.tid = NoId \/ type = NULL),
                    [Node("non_type_tparameter", path, c.tu) EXCEPT
                       !.index = index, !.ref = type, !.tid = n.tid]),
                Fresh(c), path, upd, TRUE),
              Fresh(c))

\* The children loop of build_type_composition: it stops at the first
\* child that one of the three builders accepts; r is what they returned
\* for child i.
RECURSIVE composition_children(_, _, _, _, _)
RECURSIVE composition_next(_, _, _, _, _)
composition_children(c, res, n, path, i) ==
  IF ~Live(c) \/ i > Len(n.kids) THEN c
  ELSE composition_next(
         OrElse(build_pointer_type_def(c, n.kids[i], Append(path, i), TRUE, TRUE),
         OrElse(build_reference_type_def(c, n.kids[i], Append(path, i), TRUE, TRUE),
                build_qualified_type_decl(c, n.kids[i], Append(path, i), TRUE, TRUE))),
         res, n, path, i)

composition_next(r, res, n, path, i) ==
  IF r.ret # NULL THEN [r EXCEPT !.ir[res].ref = r.ret]
  ELSE composition_children(r, res, n, path, i + 1)

build_type_composition(c, n, path, index, upd) ==
  IF ~Live(c) \/ n.tag # "template-parameter-type-composition"
    THEN Ret(c, NULL)
  ELSE Ret(composition_children(
             push_decl_to_current_scope_node(
               New(c, [Node("type_composition", path, c.tu) EXCEPT
                         !.index = index]),
               Fresh(c), path, upd, TRUE),
             Fresh(c), n, path, 1),
           Fresh(c))

\* owner->add_template_parameter(parm) when parm is not nil; okb tells the
\* loop whether to count the parameter.
add_template_parameter(parm, owner) ==
  IF parm.ret # NULL
    THEN RetB([parm EXCEPT !.ir[owner].parms = Append(@, parm.ret)], TRUE)
    ELSE RetB(parm, FALSE)

\* An index that counts every child.
next_index_of_child(r, parm_index) == parm_index + 1

\* ++parm_index when the parameter was accepted.
next_index(r, parm_index) == IF r.okb THEN parm_index + 1 ELSE parm_index

RECURSIVE build_template_parameter(_, _, _, _, _)

\* The children loop of build_template_tparameter; r is the context after
\* child i.
RECURSIVE tparameter_children(_, _, _, _, _, _)
RECURSIVE tparameter_next(_, _, _, _, _, _)
tparameter_children(c, owner, n, path, i, parm_index) ==
  IF ~Live(c) \/ i > Len(n.kids) THEN c
  ELSE tparameter_next(
         add_template_parameter(
           build_template_parameter(c, n.kids[i], Append(path, i), parm_index, TRUE),
           owner),
         owner, n, path, i, parm_index)

tparameter_next(r, owner, n, path, i, parm_index) ==
  tparameter_children(r, owner, n, path, i + 1, next_index(r, parm_index))

\* The loop of build_template_tparameter tests node->type, which is always
\* an element, so text children reach build_template_parameter too; no
\* builder accepts a text node, so only element children matter.
build_template_tparameter(c, n, path, index, upd) ==
  IF ~Live(c) \/ n.tag # "template-template-parameter" THEN Ret(c, NULL)
  ELSE Ret(key_type_decl(
             tparameter_children(
               push_decl_to_current_scope_node(
                 New(abort_if(
                       assert(c, n.id # NoId /\ get_type_decl(c, n.id) = NULL),
                       n.tid # NoId
                       /\ cast(c, get_type_decl(c, n.tid),
                               {"template_tparameter"}) = NULL),
                     [Node("template_tparameter", path, c.tu) EXCEPT
                        !.index = index]),
                 Fresh(c), path, upd, TRUE),
               Fresh(c), n, path, 1, 0),
             Fresh(c), n.id),
           Fresh(c))

build_template_parameter(c, n, path, index, upd) ==
  OrElse(build_type_tparameter(c, n, path, index, upd),
  OrElse(build_non_type_tparameter(c, n, path, index, upd),
  OrElse(build_template_tparameter(c, n, path, index, upd),
         build_type_composition(c, n, path, index, upd))))

\* tmpl->set_pattern(p) when p is not nil.
set_pattern(p, tmpl) ==
  IF p.ret # NULL THEN RetB([p EXCEPT !.ir[tmpl].pattern = p.ret], FALSE)
  ELSE RetB(p, FALSE)

\* if (parm = build_template_parameter(..)) .. else if (p = build_..(..)) ..
\* parm and p are what the two builders return for the same child.
parameter_or_pattern(parm, p, tmpl) ==
  IF parm.ret # NULL \/ ~Live(parm) THEN add_template_parameter(parm, tmpl)
  ELSE set_pattern(p, tmpl)

\* The children loop of build_function_tdecl; r is the context after
\* child i.
RECURSIVE function_tdecl_children(_, _, _, _, _, _)
RECURSIVE function_tdecl_next(_, _, _, _, _, _)
function_tdecl_children(c, tmpl, n, path, i, parm_index) ==
  IF ~Live(c) \/ i > Len(n.kids) THEN c
  ELSE function_tdecl_next(
         parameter_or_pattern(
           build_template_parameter(c, n.kids[i], Append(path, i), parm_index, TRUE),
           build_function_decl(c, n.kids[i], Append(path, i), NULL, TRUE, TRUE),
           tmpl),
         tmpl, n, path, i, parm_index)

function_tdecl_next(r, tmpl, n, path, i, parm_index) ==
  function_tdecl_children(r, tmpl, n, path, i + 1, next_index(r, parm_index))

build_function_tdecl(c, n, path, upd, add) ==
  IF ~Live(c) \/ n.tag # "function-template-decl" THEN Ret(c, NULL)
  ELSE IF n.id = NoId \/ get_fn_tmpl_decl(c, n.id) # NULL THEN Ret(c, NULL)
  ELSE Ret(key_fn_tmpl_decl(
             function_tdecl_children(
               push_decl_to_current_scope_node(
                 New(c, Node("function_tdecl", path, c.tu)),
                 Fresh(c), path, upd, add),
               Fresh(c), n, path, 1, 0),
             Fresh(c), n.id),
           Fresh(c))

RECURSIVE build_class_decl(_, _, _, _, _)
RECURSIVE build_class_tdecl(_, _, _, _, _)

build_type(c, n, path, upd, add) ==
  OrElse(build_type_decl(c, n, path, upd, add),
  OrElse(build_qualified_type_decl(c, n, path, upd, add),
  OrElse(build_pointer_type_def(c, n, path, upd, add),
  OrElse(build_reference_type_def(c, n, path, upd, add),
  OrElse(build_enum_type_decl(c, n, path, upd, add),
  OrElse(build_typedef_decl(c, n, path, upd, add),
         build_class_decl(c, n, path, upd, add)))))))

\* decl->add_data_member(v, ..) and decl->add_member_function(f, ..), when
\* the builder returned a node m.ret.
add_member_if(m, decl) ==
  IF m.ret # NULL THEN add_member(m, decl, m.ret) ELSE m

\* assert(!f->get_scope()); decl->add_member_function_template(m), and the
\* same for a member class template.
add_member_template(m, decl) ==
  IF m.ret # NULL
    THEN add_member_if(assert(m, m.ir[m.ret].scope = NULL), decl)
    ELSE m

\* The inner loops of build_class_decl over the children ks (at path) of a
\* member-type, data-member, member-function or member-template element.
RECURSIVE member_types(_, _, _, _)
member_types(c, ks, path, i) ==
  IF ~Live(c) \/ i > Len(ks) THEN c
  ELSE member_types(build_type(c, ks[i], Append(path, i), TRUE, TRUE),
                    ks, path, i + 1)

\* An offset attribute that counts as absent when it writes 0.
read_nonzero_offset_in_bits(n, offset_in_bits) ==
  IF HasAttribute(n, "layout-offset-in-bits")
     /\ atoi(n.attrs["layout-offset-in-bits"]) # 0
    THEN [ret |-> TRUE,
          offset_in_bits |-> atoi(n.attrs["layout-offset-in-bits"])]
    ELSE [ret |-> FALSE, offset_in_bits |-> offset_in_bits]

\* read_offset_in_bits(n, offset_in_bits): what it returns, and
\* offset_in_bits after the call given its value before.
read_offset_in_bits(n, offset_in_bits) ==
  IF HasAttribute(n, "layout-offset-in-bits")
    THEN [ret |-> TRUE,
          offset_in_bits |-> atoi(n.attrs["layout-offset-in-bits"])]
    ELSE [ret |-> FALSE, offset_in_bits |-> offset_in_bits]

\* decl->add_data_member(v, access, is_laid_out, is_static, offset_in_bits)
\* when the builder returned a variable m.ret; r is what
\* read_offset_in_bits answered.
add_data_member(m, decl, r) ==
  IF m.ret # NULL
    THEN add_member([m EXCEPT !.ir[m.ret].is_laid_out = r.ret,
                              !.ir[m.ret].offset_in_bits = r.offset_in_bits],
                    decl, m.ret)
    ELSE m

\* w is the data-member element, whose attributes are read before the loop
\* over its children.
RECURSIVE data_members(_, _, _, _, _)
data_members(c, decl, w, path, i) ==
  IF ~Live(c) \/ i > Len(w.kids) THEN c
  ELSE data_members(
         add_data_member(
           build_var_decl(c, w.kids[i], Append(path, i), TRUE, FALSE),
           decl, read_offset_in_bits(w, 0)),
         decl, w, path, i + 1)

\* read_cdtor_const(n, is_ctor, is_dtor, is_const): the three flags after
\* the call, given their values before it.
read_cdtor_const(n, is_ctor, is_dtor, is_const) ==
  IF HasAttribute(n, "constructor")
    THEN [is_ctor |-> n.attrs["constructor"] = Yes, is_dtor |-> is_dtor,
          is_const |-> is_const]
  ELSE IF HasAttribute(n, "destructor")
    THEN [is_ctor |-> is_ctor, is_dtor |-> n.attrs["destructor"] = Yes,
          is_const |-> is_const]
  ELSE IF HasAttribute(n, "const")
    THEN [is_ctor |-> is_ctor, is_dtor |-> is_dtor,
          is_const |-> n.attrs["const"] = Yes]
  ELSE [is_ctor |-> is_ctor, is_dtor |-> is_dtor, is_const |-> is_const]

\* decl->add_member_function(f, access, vtable_offset, is_static, is_ctor,
\* is_dtor, is_const) when the builder returned a function m.ret; flags
\* holds the three flags.
add_member_function(m, decl, flags) ==
  IF m.ret # NULL
    THEN add_member([m EXCEPT !.ir[m.ret].is_ctor = flags.is_ctor,
                              !.ir[m.ret].is_dtor = flags.is_dtor,
                              !.ir[m.ret].is_const = flags.is_const],
                    decl, m.ret)
    ELSE m

\* w is the member-function element, whose attributes are read before the
\* loop over its children.
RECURSIVE member_functions(_, _, _, _, _)
member_functions(c, decl, w, path, i) ==
  IF ~Live(c) \/ i > Len(w.kids) THEN c
  ELSE member_functions(
         add_member_function(
           build_function_decl(c, w.kids[i], Append(path, i), decl, TRUE,
                               FALSE),
           decl, read_cdtor_const(w, FALSE, FALSE, FALSE)),
         decl, w, path, i + 1)

RECURSIVE member_templates(_, _, _, _, _)
member_templates(c, decl, ks, path, i) ==
  IF ~Live(c) \/ i > Len(ks) THEN c
  ELSE member_templates(
         add_member_template(
           OrElse(build_function_tdecl(c, ks[i], Append(path, i), TRUE, FALSE),
                  build_class_tdecl(c, ks[i], Append(path, i), TRUE, FALSE)),
           decl),
         decl, ks, path, i + 1)

\* offset_present ? (long) offset_in_bits : -1, r being what
\* read_offset_in_bits answered.
base_offset(r) == IF r.ret THEN r.offset_in_bits ELSE -1

\* b = dynamic_pointer_cast<class_decl>(..); assert(b); the offset is read
\* after the assertion; decl->add_base_specifier(base)
add_base_specifier(c, decl, b, w) ==
  IF Live(assert(c, b # NULL))
    THEN [c EXCEPT !.ir[decl].bases =
                     Append(@, [ref |-> b, tid |-> w.tid,
                                offset_in_bits |->
                                  base_offset(read_offset_in_bits(w, 0))])]
    ELSE assert(c, b # NULL)

\* The children loop of build_class_decl, from child i on.
RECURSIVE class_children(_, _, _, _, _)
class_children(c, decl, n, path, i) ==
  IF ~Live(c) \/ i > Len(n.kids) THEN c
  ELSE class_children(
         CASE n.kids[i].tag = "base-class" ->
                add_base_specifier(
                  c, decl,
                  cast(c, get_type_decl(c, n.kids[i].tid), {"class_decl"}),
                  n.kids[i])
           [] n.kids[i].tag = "member-type" ->
                member_types(c, n.kids[i].kids, Append(path, i), 1)
           [] n.kids[i].tag = "data-member" ->
                data_members(c, decl, n.kids[i], Append(path, i), 1)
           [] n.kids[i].tag = "member-function" ->
                member_functions(c, decl, n.kids[i], Append(path, i), 1)
           [] n.kids[i].tag = "member-template" ->
                member_templates(c, decl, n.kids[i].kids, Append(path, i), 1)
           [] OTHER -> c,
         decl, n, path, i + 1)

\* if (!is_decl_only) { the children loop }
class_body(c, decl, n, path, is_decl_only) ==
  IF is_decl_only THEN c ELSE class_children(c, decl, n, path, 1)

\* if (is_def_of_decl) decl->set_earlier_declaration(d), reached while decl
\* is still null when the element is declaration-only as well (unset).
set_earlier_declaration(c, unset) == IF unset THEN null_deref(c) ELSE c

build_class_decl(c, n, path, upd, add) ==
  IF ~Live(c) \/ n.tag # "class-decl" THEN Ret(c, NULL)
  ELSE LET t == get_type_decl(c, n.id)
           is_decl_only == n.declonly
           d == cast(c, get_type_decl(c, n.defid), {"class_decl"})
           is_def_of_decl == n.defid # NoId /\ d # NULL /\ c.ir[d].declonly
       IN Ret(key_type_decl(
                class_body(
                  push_decl_to_current_scope_node(
                    New(assert(
                          set_earlier_declaration(
                            assert(c, n.id = NoId \/ t = NULL
                                      \/ (c.ir[t].kind = "class_decl"
                                          /\ c.ir[t].declonly)),
                            is_def_of_decl /\ is_decl_only),
                          ~is_decl_only \/ ~is_def_of_decl),
                        [NodeAt("class_decl", path, c.tu,
                          read_location_node(n, UnknownLocation)) EXCEPT
                           !.declonly = is_decl_only,
                           !.earlier = IF is_def_of_decl /\ ~is_decl_only
                                       THEN d ELSE NULL]),
                    Fresh(c), path, upd, add),
                  Fresh(c), n, path, is_decl_only),
                Fresh(c), n.id),
              Fresh(c))

\* The children loop of build_class_tdecl; the pattern class is built with
\* the template's own add_to_current_scope; r is the context after child i.
RECURSIVE class_tdecl_children(_, _, _, _, _, _, _)
RECURSIVE class_tdecl_next(_, _, _, _, _, _, _)
class_tdecl_children(c, tmpl, n, path, i, parm_index, add) ==
  IF ~Live(c) \/ i > Len(n.kids) THEN c
  ELSE class_tdecl_next(
         parameter_or_pattern(
           build_template_parameter(c, n.kids[i], Append(path, i), parm_index, TRUE),
           build_class_decl(c, n.kids[i], Append(path, i), TRUE, add),
           tmpl),
         tmpl, n, path, i, parm_index, add)

class_tdecl_next(r, tmpl, n, path, i, parm_index, add) ==
  class_tdecl_children(r, tmpl, n, path, i + 1, next_index(r, parm_index), add)

build_class_tdecl(c, n, path, upd, add) ==
  IF ~Live(c) \/ n.tag # "class-template-decl" THEN Ret(c, NULL)
  ELSE IF n.id = NoId \/ get_class_tmpl_decl(c, n.id) # NULL
    THEN Ret(c, NULL)
  ELSE Ret(key_class_tmpl_decl(
             class_tdecl_children(
               push_decl_to_current_scope_node(
                 New(c, Node("class_tdecl", path, c.tu)),
                 Fresh(c), path, upd, add),
               Fresh(c), n, path, 1, 0, add),
             Fresh(c), n.id),
           Fresh(c))

----------------------------------------------------------------------------
(* The streaming handlers.  Each takes the element n under the cursor and  *)
(* returns the context with okb set to the handler's return value.         *)

\* A shared_ptr converted to bool.
AsBool(r) == RetB(r, r.ret # NULL)

handle_type_decl(c, n, path) == AsBool(build_type_decl(c, n, path, FALSE, TRUE))

handle_namespace_decl(c, n, path) ==
  IF ~is_global_scope(c, get_cur_scope(c))
     /\ cast(c, get_cur_scope(c), {"namespace_decl"}) = NULL
    THEN RetB(c, FALSE)
    ELSE RetB(push_decl_to_current_scope(
                New(c, NodeAt("namespace_decl", path, c.tu,
                                 read_location(n, UnknownLocation))),
                Fresh(c), TRUE),
              TRUE)

\* handle_qualified_type_decl, handle_pointer_type_def,
\* handle_reference_type_def and handle_typedef_decl share one body, the
\* one of their builders without the tag test and the depth update.
handle_referring_type(c, n, path, kind) ==
  LET referred == get_type_decl(c, n.tid)
  IN push_and_key_type_decl(
       New(assert(assert(c, referred # NULL),
                  n.id # NoId /\ get_type_decl(c, n.id) = NULL),
           [NodeAt(kind, path, c.tu, read_location(n, UnknownLocation)) EXCEPT
              !.ref = referred, !.tid = n.tid]),
       Fresh(c), n.id, TRUE)

handle_qualified_type_decl(c, n, path) ==
  handle_referring_type(c, n, path, "qualified_type_def")

handle_pointer_type_def(c, n, path) ==
  handle_referring_type(c, n, path, "pointer_type_def")

handle_reference_type_def(c, n, path) ==
  handle_referring_type(c, n, path, "reference_type_def")

handle_typedef_decl(c, n, path) ==
  handle_referring_type(c, n, path, "typedef_decl")

handle_enum_type_decl(c, n, path) ==
  AsBool(build_enum_type_decl(c, n, path, FALSE, TRUE))

handle_var_decl(c, n, path) == AsBool(build_var_decl(c, n, path, FALSE, TRUE))

handle_function_decl(c, n, path) ==
  RetB(build_function_decl(c, n, path, NULL, FALSE, TRUE), TRUE)

handle_class_decl(c, n, path) ==
  AsBool(build_class_decl(c, n, path, FALSE, TRUE))

handle_function_tdecl(c, n, path) ==
  AsBool(build_function_tdecl(c, n, path, FALSE, TRUE))

handle_class_tdecl(c, n, path) ==
  AsBool(build_class_tdecl(c, n, path, FALSE, TRUE))

\* The tags handle_element dispatches on.
HandledTags ==
  {"namespace-decl", "type-decl", "qualified-type-def", "pointer-type-def",
   "reference-type-def", "enum-decl", "typedef-decl", "var-decl",
   "function-decl", "class-decl", "function-template-decl",
   "class-template-decl"}

----------------------------------------------------------------------------
(* The drivers.                                                            *)

\* The read_context as the operators above take it.
Ctx ==
  [depth |-> m_depth, stack |-> m_decls_stack, types |-> m_types_map,
   fns |-> m_fn_tmpl_map, cls |-> m_class_tmpl_map, ir |-> ir, tu |-> tu,
   ndebug |-> ndebug, ub |-> ub, st |-> "ok", ret |-> NULL, okb |-> FALSE]

\* Writes the context back.
Commit(c) ==
  /\ m_depth' = c.depth
  /\ m_decls_stack' = c.stack
  /\ m_types_map' = c.types
  /\ m_fn_tmpl_map' = c.fns
  /\ m_class_tmpl_map' = c.cls
  /\ ir' = c.ir

\* A read_context just constructed.
FreshContext ==
  /\ m_depth' = 0
  /\ m_decls_stack' = <<>>
  /\ m_types_map' = EmptyMap
  /\ m_fn_tmpl_map' = EmptyMap
  /\ m_class_tmpl_map' = EmptyMap

Stream == archive[entry]

Cur == Stream[pos]

\* The cursor after a read: the context, the position and the status.
Cursor(c, r) == [c |-> c, pos |-> r.pos, status |-> r.status]

\* update_read_context(ctxt) when the read r succeeded.
update_after_read(c, s, r) ==
  Cursor(IF r.status = 1 THEN update_read_context(c, s[r.pos]) ELSE c, r)

advance_cursor(c, s, p) == update_after_read(c, s, xmlTextReaderRead(s, p))

\* while (status == 1 && node type != ELEMENT) status = advance_cursor(ctxt)
\* from the cursor a.
RECURSIVE seek_element(_, _)
seek_element(a, s) ==
  IF a.status = 1 /\ NodeType(s, a.pos) # "elem"
    THEN seek_element(advance_cursor(a.c, s, a.pos), s)
    ELSE a

\* A unit entered in the global scope of the first unit read, when there
\* is one.
enter_unit_in_first_scope(c, path) ==
  IF \E g \in 1..Len(c.ir) : c.ir[g].kind = "global_scope"
    THEN push_decl(clear_type_map(c),
                   CHOOSE g \in 1..Len(c.ir) :
                     /\ c.ir[g].kind = "global_scope"
                     /\ \A k \in 1..(g - 1) : c.ir[k].kind # "global_scope")
    ELSE push_decl(New(clear_type_map(c), Node("global_scope", path, c.tu)),
                   Fresh(c))

\* ctxt.clear_type_map(); ..; ctxt.push_decl(tu.get_global_scope())
enter_unit(c, path) ==
  push_decl(New(clear_type_map(c), Node("global_scope", path, c.tu)), Fresh(c))

\* if (path_str) tu.set_path(path_str): attr is the path attribute of the
\* root, <<>> when the root has none.
set_path(ps, u, attr) == IF attr = <<>> THEN ps ELSE [ps EXCEPT ![u] = attr[1]]

\* if (addrsize_str) tu.set_address_size(..): the model keeps whether the
\* address size of the unit u was set.
set_address_size(as, u, root) ==
  IF HasAttribute(root, "address-size") THEN [as EXCEPT ![u] = TRUE] ELSE as

\* A root test that looks at the status only.
root_found(a, tag) == a.status = 1

\* status == 1 && xmlStrEqual(XML_READER_GET_NODE_NAME(reader), tag), the
\* negation of the test the drivers return false on.
root_is(a, tag) == a.status = 1 /\ Stream[a.pos].node.tag = tag

\* The part of read_translation_unit_from_input before its loop, a being
\* the cursor once the first element is sought.
unit_begin(a) ==
  /\ pos' = a.pos
  /\ IF root_is(a, "abi-instr")
       THEN /\ Commit(enter_unit(a.c, Stream[a.pos].path))
            /\ tu_paths' = set_path(tu_paths, tu, Stream[a.pos].node.path)
            /\ tu_has_address_size' =
                 set_address_size(tu_has_address_size, tu, Stream[a.pos].node)
            /\ pc' = "advance"
            /\ UNCHANGED is_ok
       ELSE /\ Commit(a.c)
            /\ pc' = "unit_end"
            /\ is_ok' = FALSE
            /\ UNCHANGED <<tu_paths, tu_has_address_size>>

ReadTranslationUnitBegin ==
  /\ pc = "unit_begin"
  /\ \E a \in {seek_element(Cursor(Ctx, [pos |-> pos, status |-> 1]), Stream)} :
       unit_begin(a)
  /\ UNCHANGED <<mode, zip, nb_of_tu_read, ndebug, ub, atoi_overflow, corp_path,
             archive, entry, tu, corp,
                 result, log>>

\* The head of the loop of read_translation_unit_from_input, a being the
\* cursor advanced: test the status and the stack, look at the node type.
unit_loop(a) ==
  /\ Commit(a.c)
  /\ pos' = a.pos
  /\ IF a.status = 1 /\ get_cur_decl(a.c) # NULL
       THEN /\ pc' = IF NodeType(Stream, a.pos) = "elem" THEN "handle"
                     ELSE "advance"
            /\ UNCHANGED is_ok
       ELSE /\ pc' = "unit_end"
            /\ is_ok' = (a.status # -1)

AdvanceCursor ==
  /\ pc = "advance"
  /\ \E a \in {advance_cursor(Ctx, Stream, pos)} : unit_loop(a)
  /\ UNCHANGED <<mode, zip, nb_of_tu_read, tu_paths, tu_has_address_size, ndebug,
             ub, atoi_overflow, corp_path,
             archive, entry,
                 tu, corp, result, log>>

\* One branch of handle_element with the driver's test of what it returns:
\* r is the context the handler leaves, next whether the handler ends with
\* xmlTextReaderNext.
Handle(tag, r, next) ==
  /\ pc = "handle"
  /\ Cur.node.tag = tag
  /\ \E h \in {r} :
       /\ Commit(h)
       /\ pos' = IF next /\ Live(h) THEN xmlTextReaderNext(Stream, pos).pos ELSE pos
       /\ pc' = IF h.st = "crash" THEN "crashed"
                ELSE IF h.st = "abort" \/ ~h.okb THEN "aborted"
                ELSE "advance"
  /\ UNCHANGED <<mode, zip, nb_of_tu_read, tu_paths, tu_has_address_size, ndebug,
             ub, atoi_overflow, corp_path,
             archive, entry,
                 tu, corp, is_ok, result, log>>

HandleNamespaceDecl ==
  Handle("namespace-decl", handle_namespace_decl(Ctx, Cur.node, Cur.path), FALSE)

HandleTypeDecl ==
  Handle("type-decl", handle_type_decl(Ctx, Cur.node, Cur.path), TRUE)

HandleQualifiedTypeDecl ==
  Handle("qualified-type-def", handle_qualified_type_decl(Ctx, Cur.node, Cur.path), FALSE)

HandlePointerTypeDef ==
  Handle("pointer-type-def", handle_pointer_type_def(Ctx, Cur.node, Cur.path), FALSE)

HandleReferenceTypeDef ==
  Handle("reference-type-def", handle_reference_type_def(Ctx, Cur.node, Cur.path), FALSE)

HandleEnumTypeDecl ==
  Handle("enum-decl", handle_enum_type_decl(Ctx, Cur.node, Cur.path), TRUE)

HandleTypedefDecl ==
  Handle("typedef-decl", handle_typedef_decl(Ctx, Cur.node, Cur.path), FALSE)

HandleVarDecl ==
  Handle("var-decl", handle_var_decl(Ctx, Cur.node, Cur.path), TRUE)

HandleFunctionDecl ==
  Handle("function-decl", handle_function_decl(Ctx, Cur.node, Cur.path), TRUE)

HandleClassDecl ==
  Handle("class-decl", handle_class_decl(Ctx, Cur.node, Cur.path), TRUE)

HandleFunctionTdecl ==
  Handle("function-template-decl", handle_function_tdecl(Ctx, Cur.node, Cur.path), TRUE)

HandleClassTdecl ==
  Handle("class-template-decl", handle_class_tdecl(Ctx, Cur.node, Cur.path), TRUE)

\* handle_element knows no handler for the tag: it returns false.
HandleUnknown ==
  /\ pc = "handle"
  /\ Cur.node.tag \notin HandledTags
  /\ pc' = "aborted"
  /\ UNCHANGED <<mode, zip, nb_of_tu_read, tu_paths, tu_has_address_size, ndebug,
             ub, atoi_overflow, corp_path,
             archive, entry,
                 pos, m_depth, m_decls_stack,
                 m_types_map, m_fn_tmpl_map, m_class_tmpl_map, ir, tu, corp,
                 is_ok, result, log>>

\* read_translation_unit_from_file / _from_buffer return what
\* read_translation_unit_from_input returned.
ReadTranslationUnitReturn ==
  /\ mode = "unit"
  /\ pc = "unit_end"
  /\ result' = IF is_ok THEN "true" ELSE "false"
  /\ pc' = "done"
  /\ UNCHANGED <<mode, zip, nb_of_tu_read, tu_paths, tu_has_address_size, ndebug,
             ub, atoi_overflow, corp_path,
             archive, entry,
                 pos, m_depth, m_decls_stack,
                 m_types_map, m_fn_tmpl_map, m_class_tmpl_map, ir, tu, corp,
                 is_ok, log>>

\* do status = advance_cursor(ctxt);
\* while (status == 1 && node type != ELEMENT)
seek_next_element(c, s, p) == seek_element(advance_cursor(c, s, p), s)

\* Leaves the cursor a to the unit reader.
corpus_units(a) ==
  /\ Commit(a.c)
  /\ pos' = a.pos
  /\ pc' = "unit_begin"
  /\ UNCHANGED result

\* The part of read_corpus_from_input before its loop, a being the cursor
\* once the first element is sought.
corpus_begin(a) ==
  IF root_is(a, "abi-corpus")
    THEN /\ corp_path' = IF Stream[a.pos].node.path # <<>>
                           THEN Stream[a.pos].node.path ELSE corp_path
         /\ \E b \in {seek_next_element(a.c, Stream, a.pos)} : corpus_units(b)
    ELSE /\ Commit(a.c)
         /\ pos' = a.pos
         /\ pc' = "done"
         /\ result' = "false"
         /\ UNCHANGED corp_path

ReadCorpusBegin ==
  /\ mode = "corpus"
  /\ pc = "corpus_begin"
  /\ \E a \in {seek_element(Cursor(Ctx, [pos |-> pos, status |-> 1]), Stream)} :
       corpus_begin(a)
  /\ UNCHANGED <<mode, zip, nb_of_tu_read, tu_paths, tu_has_address_size, ndebug,
             ub, atoi_overflow,
             archive, entry,
                 tu, corp, is_ok, log>>

\* The loop of read_corpus_from_input: a unit read is added to the corpus
\* and a new translation_unit is read with the same read_context.
ReadCorpusLoop ==
  /\ mode = "corpus"
  /\ pc = "unit_end"
  /\ IF is_ok
       THEN /\ corp' = Append(corp, tu)
            /\ tu' = tu + 1
            /\ tu_paths' = Append(tu_paths, "")
            /\ tu_has_address_size' = Append(tu_has_address_size, FALSE)
            /\ pc' = "unit_begin"
            /\ UNCHANGED result
       ELSE /\ pc' = "done"
            /\ result' = "true"
            /\ UNCHANGED <<corp, tu, tu_paths, tu_has_address_size>>
  /\ UNCHANGED <<mode, zip, nb_of_tu_read, ndebug, ub, atoi_overflow, corp_path,
             archive, entry, pos,
                 m_depth, m_decls_stack, m_types_map, m_fn_tmpl_map,
                 m_class_tmpl_map, ir, is_ok, log>>

\* read_corpus_from_file(corp, path): open_archive fails and -1 is
\* returned, or the archive is handed to read_corpus_from_archive.
ReadCorpusFromFile ==
  /\ mode = "archive"
  /\ pc = "archive_open"
  /\ IF zip.opens
       THEN pc' = "archive_loop" /\ UNCHANGED result
       ELSE pc' = "done" /\ result' = "error"
  /\ UNCHANGED <<mode, zip, nb_of_tu_read, tu_paths, tu_has_address_size, ndebug,
             ub, atoi_overflow, corp_path,
             archive, entry,
                 pos, m_depth, m_decls_stack, m_types_map, m_fn_tmpl_map,
                 m_class_tmpl_map, ir, tu, corp, is_ok, log>>

\* zip_get_name(ar, i, 0): the entries are named after their index.
zip_get_name(i) == ToString(i)

\* open_file_in_archive(ar, i) returned a file.
open_file_in_archive(i) == i \in zip.files

\* The head of the loop of read_corpus_from_archive: a translation_unit
\* named after the next entry is made and read_to_translation_unit opens
\* the entry, returning false when it cannot, and reads its content through
\* read_translation_unit_from_buffer and so with a new read_context.  When
\* the entries are exhausted nb_of_tu_read is returned.
ReadCorpusFromArchiveLoop ==
  /\ mode = "archive"
  /\ pc = "archive_loop"
  /\ IF entry < Len(archive)
       THEN /\ entry' = entry + 1
            /\ tu' = tu + 1
            /\ tu_paths' = Append(tu_paths, zip_get_name(entry + 1))
            /\ tu_has_address_size' = Append(tu_has_address_size, FALSE)
            /\ IF open_file_in_archive(entry + 1)
                 THEN /\ pos' = 0
                      /\ FreshContext
                      /\ pc' = "unit_begin"
                      /\ UNCHANGED is_ok
                 ELSE /\ pc' = "unit_end"
                      /\ is_ok' = FALSE
                      /\ UNCHANGED <<pos, m_depth, m_decls_stack, m_types_map,
                                     m_fn_tmpl_map, m_class_tmpl_map>>
            /\ UNCHANGED result
       ELSE /\ pc' = "done"
            /\ result' = "count"
            /\ UNCHANGED <<entry, pos, tu, tu_paths, tu_has_address_size, m_depth, m_decls_stack,
                           m_types_map, m_fn_tmpl_map, m_class_tmpl_map, is_ok>>
  /\ UNCHANGED <<mode, zip, nb_of_tu_read, ndebug, ub, atoi_overflow, corp_path,
             archive, ir, corp, log>>

\* The body of that loop after read_to_translation_unit returned.
ReadToTranslationUnitReturn ==
  /\ mode = "archive"
  /\ pc = "unit_end"
  /\ corp' = IF is_ok THEN Append(corp, tu) ELSE corp
  /\ nb_of_tu_read' = IF is_ok THEN nb_of_tu_read + 1 ELSE nb_of_tu_read
  /\ pc' = "archive_loop"
  /\ UNCHANGED <<mode, zip, tu_paths, tu_has_address_size, ndebug, ub,
             atoi_overflow, corp_path,
             archive, entry, pos, m_depth,
                 m_decls_stack, m_types_map, m_fn_tmpl_map, m_class_tmpl_map,
                 ir, tu, is_ok, result, log>>

----------------------------------------------------------------------------
(* The documents.                                                          *)

TypeDecl(id) == El("type-decl", id, NoId, <<>>)

PointerTypeDef(id, tid) == El("pointer-type-def", id, tid, <<>>)

VarDecl(tid) == El("var-decl", NoId, tid, <<>>)

FunctionDecl(kids) == El("function-decl", NoId, NoId, kids)

NamespaceDecl(kids) == El("namespace-decl", NoId, NoId, kids)

ClassDecl(id, kids) == El("class-decl", id, NoId, kids)

\* A wrapper element (member-type, data-member, ...) around one element.
Wrap(tag, e) == El(tag, NoId, NoId, <<e>>)

TypeTParameter(id) == El("template-type-parameter", id, NoId, <<>>)

FunctionTdecl(id) ==
  El("function-template-decl", id, NoId,
     <<TypeTParameter(NoId), FunctionDecl(<<>>)>>)

ClassTdecl(id, pattern) ==
  El("class-template-decl", id, NoId, <<TypeTParameter(NoId), pattern>>)

AbiInstr(kids) == El("abi-instr", NoId, NoId, kids)

AbiCorpus(kids) == El("abi-corpus", NoId, NoId, kids)

\* The well-nested bodies of n logical elements: Forests(n) are the
\* sequences of namespace-level elements, MemberLists(n) the sequences of
\* wrapped class members.  Types may refer to the type-decl of ID 1.
RECURSIVE Forests(_)
RECURSIVE Items(_)
RECURSIVE MemberLists(_)
RECURSIVE Members(_)

Forests(n) ==
  IF n = 0 THEN {<<>>}
  ELSE UNION {{<<i>> \o f : i \in Items(k), f \in Forests(n - k)} : k \in 1..n}

Items(n) ==
  (IF n = 1 THEN {TypeDecl(Auto), PointerTypeDef(Auto, 1)} ELSE {})
  \cup {NamespaceDecl(f) : f \in Forests(n - 1)}
  \cup {ClassDecl(Auto, m) : m \in MemberLists(n - 1)}
  \cup (IF n = 2 THEN {FunctionTdecl(Auto)} ELSE {})
  \cup (IF n >= 2
          THEN {ClassTdecl(Auto, ClassDecl(Auto, m)) : m \in MemberLists(n - 2)}
          ELSE {})

MemberLists(n) ==
  IF n = 0 THEN {<<>>}
  ELSE UNION {{<<i>> \o f : i \in Members(k), f \in MemberLists(n - k)} : k \in 1..n}

Members(n) ==
  (IF n = 1
     THEN {Wrap("data-member", VarDecl(1)),
           Wrap("member-type", TypeDecl(Auto)),
           Wrap("member-function", FunctionDecl(<<>>))}
     ELSE {})
  \cup {Wrap("member-type", ClassDecl(Auto, m)) : m \in MemberLists(n - 1)}
  \cup (IF n = 2 THEN {Wrap("member-template", FunctionTdecl(Auto))} ELSE {})
  \cup (IF n >= 2
          THEN {Wrap("member-template", ClassTdecl(Auto, ClassDecl(Auto, m))) :
                  m \in MemberLists(n - 2)}
          ELSE {})

\* The generated unit documents: the type-decl of ID 1, then a body.
ShapeDocs ==
  {AbiInstr(<<TypeDecl(1)>> \o f) : f \in UNION {Forests(n) : n \in 0..MaxItems}}


\* IDs the written documents use: 1 is a type-decl, 2 a class, 3 is never
\* defined, NoId stands for an absent attribute.
RefIds == {NoId, 1, 2, 3}

ReferringTags ==
  {"pointer-type-def", "reference-type-def", "qualified-type-def",
   "typedef-decl"}

Enumerator(name, value) ==
  [El("enumerator", NoId, NoId, <<>>) EXCEPT !.name = name, !.val = value]

EnumDecl(id, tid) ==
  El("enum-decl", id, NoId,
     <<El("underlying-type", NoId, tid, <<>>),
       Enumerator(<<"A">>, <<"1">>)>>)

Parameter(tid, variadic) ==
  [El("parameter", NoId, tid, <<>>) EXCEPT !.variadic = variadic]

Return(tid) == El("return", NoId, tid, <<>>)

NonTypeTParameter(tid) == El("template-non-type-parameter", NoId, tid, <<>>)

\* Elements that look a type ID up, one per place the reader does it.
TypeReferrers ==
  {El(t, 4, r, <<>>) : t \in ReferringTags, r \in RefIds}
  \cup {EnumDecl(4, r) : r \in RefIds}
  \cup {ClassDecl(4, <<El("base-class", NoId, r, <<>>)>>) : r \in RefIds}

Referrers ==
  TypeReferrers
  \cup {VarDecl(r) : r \in RefIds}
  \cup {FunctionDecl(<<Parameter(r, v), Return(r)>>) : r \in RefIds, v \in BOOLEAN}
  \cup {El("function-template-decl", 1, NoId,
           <<NonTypeTParameter(r), FunctionDecl(<<>>)>>) : r \in RefIds}

\* A referrer under the cursor of the driver, or deeper where only the
\* builders see it; an element handle_element does not know.
RefDocs ==
  {AbiInstr(<<TypeDecl(1), ClassDecl(2, <<>>), x>>) : x \in Referrers}
  \cup {AbiInstr(<<TypeDecl(1), ClassDecl(2, <<>>),
                   ClassDecl(5, <<Wrap("member-type", x)>>)>>) :
          x \in TypeReferrers}
  \cup {AbiInstr(<<TypeDecl(1), NamespaceDecl(<<x>>)>>) : x \in Referrers}
  \cup {AbiInstr(<<TypeDecl(1), NamespaceDecl(<<>>), El("elf-symbol", NoId, NoId, <<>>)>>)}

\* Declaration-only classes and their definitions.
Stub(id) == [ClassDecl(id, <<>>) EXCEPT !.declonly = TRUE]

StubDocs ==
  {AbiInstr(pre \o <<[ClassDecl(2, <<>>) EXCEPT !.declonly = d1]>>
            \o mid
            \o <<[ClassDecl(id, <<Wrap("data-member", VarDecl(1))>>)
                    EXCEPT !.defid = defid, !.declonly = d2],
                 PointerTypeDef(6, 2)>>) :
     pre \in {<<>>, <<TypeDecl(1)>>},
     d1 \in BOOLEAN,
     mid \in {<<>>, <<PointerTypeDef(3, 2)>>,
              <<NamespaceDecl(<<TypeDecl(5)>>)>>},
     id \in {2, 4},
     defid \in {NoId, 2},
     d2 \in BOOLEAN}

\* A class with exactly one data-member wrapping one var-decl, as deep as
\* the reader lets it sit, and the elements that follow it.
OneMember(id) == ClassDecl(id, <<Wrap("data-member", VarDecl(1))>>)

NestDocs ==
  {AbiInstr(<<TypeDecl(1)>> \o body \o <<x>>) :
     x \in {TypeDecl(Auto), OneMember(Auto)},
     body \in {<<NamespaceDecl(<<OneMember(2)>>)>>,
               <<NamespaceDecl(<<NamespaceDecl(<<OneMember(2)>>)>>)>>,
               <<NamespaceDecl(<<NamespaceDecl(<<OneMember(2)>>), TypeDecl(3)>>)>>,
               <<ClassDecl(3, <<Wrap("member-type", OneMember(2)),
                                Wrap("data-member", VarDecl(1))>>)>>,
               <<ClassDecl(3, <<Wrap("member-type",
                                     ClassDecl(5, <<Wrap("member-type", OneMember(2))>>)),
                                Wrap("member-type", TypeDecl(4))>>)>>,
               <<NamespaceDecl(<<ClassDecl(3, <<Wrap("member-type", OneMember(2)),
                                                Wrap("member-type", TypeDecl(4))>>)>>)>>,
               <<ClassTdecl(1, OneMember(2))>>}}

\* Bodies of the units of a corpus or of an archive; they reuse the type
\* IDs 1 and 2 and the template ID 1.  In the well-formed ones every type
\* ID referred to is registered earlier in the same unit and every element
\* is one handle_element knows.
WellFormedBodies ==
  {<<TypeDecl(1)>>,
   <<TypeDecl(1), PointerTypeDef(2, 1)>>,
   <<TypeDecl(1), TypeDecl(2), PointerTypeDef(3, 2)>>,
   <<TypeDecl(1), FunctionTdecl(1)>>,
   <<TypeDecl(1), ClassTdecl(1, ClassDecl(2, <<>>))>>}

\* A reference to a type ID the unit does not register; an unknown element.
MalformedBodies ==
  {<<PointerTypeDef(2, 1)>>,
   <<El("elf-symbol", NoId, NoId, <<>>)>>}

UnitBodies == WellFormedBodies \cup MalformedBodies

\* The element n with the attribute path="p".
WithPath(n, p) == [n EXCEPT !.path = <<p>>]

CorpusDocs ==
  {AbiCorpus(<<AbiInstr(a), AbiInstr(b)>>) : a \in UnitBodies, b \in UnitBodies}
  \cup {AbiCorpus(<<AbiInstr(a)>>) : a \in UnitBodies}
  \cup {AbiCorpus(<<>>), AbiCorpus(<<TypeDecl(1)>>), AbiInstr(<<TypeDecl(1)>>)}

Archives ==
  {<<AbiInstr(a), AbiInstr(b)>> : a \in UnitBodies, b \in UnitBodies}
  \cup {<<AbiCorpus(<<TypeDecl(1)>>), AbiInstr(a)>> : a \in UnitBodies}
  \cup {<<WithPath(AbiInstr(<<TypeDecl(1)>>), p), AbiInstr(<<TypeDecl(1)>>)>> :
          p \in {"1", "a.cc"}}
  \cup {<<>>}

\* The sequences of at most n enumerators.
RECURSIVE EnumeratorLists(_)
EnumeratorLists(n) ==
  IF n = 0 THEN {<<>>}
  ELSE EnumeratorLists(n - 1)
       \cup {<<Enumerator(nm, v)>> \o l :
               nm \in {<<"A">>, <<"B", "&lt;">>},
               v \in {<<"0">>, <<"1", "5">>,
                      <<"4", "2", "9", "4", "9", "6", "7", "2", "9", "6">>},
               l \in {x \in EnumeratorLists(n - 1) : Len(x) = n - 1}}

\* The sequence s with e inserted after its first i elements.
InsertAt(s, i, e) ==
  IF i >= Len(s) THEN Append(s, e)
  ELSE SubSeq(s, 1, i) \o <<e>> \o SubSeq(s, i + 1, Len(s))

\* An enum-decl over the type 1, its underlying-type child at any place
\* among its enumerators.
EnumDocs ==
  {AbiInstr(<<TypeDecl(1),
              El("enum-decl", 2, NoId,
                 InsertAt(l, i, El("underlying-type", NoId, 1, <<>>)))>>) :
     l \in EnumeratorLists(MaxEnumerators),
     i \in 0..MaxEnumerators}

\* A basic type: a type-decl with a name and a size-in-bits.
BasicType(id, name, size) == [TypeDecl(id) EXCEPT !.name = name, !.size = size]

\* The documents of one basic type.
BasicTypeDocs ==
  {AbiInstr(<<BasicType(1, nm, sz)>>) :
     nm \in {<<"i", "n", "t">>, <<"c", "h", "a", "r">>},
     sz \in {<<"3", "2">>, <<"8">>}}

\* The element n with the attributes a.
WithAttrs(n, a) == [n EXCEPT !.attrs = a]

\* The assignments of the texts in vs to some of the attributes in as.
Attributes(as, vs) == UNION {[S -> vs] : S \in SUBSET as}

\* A class with one member function, under every combination of presence
\* and value of the constructor, destructor and const attributes.
MemberFunctionDocs ==
  {AbiInstr(<<ClassDecl(2, <<WithAttrs(Wrap("member-function",
                                            FunctionDecl(<<>>)), a)>>)>>) :
     a \in Attributes({"constructor", "destructor", "const"},
                      {Yes, <<"n", "o">>})}

\* A class with a base class and a data member, the layout offset of each
\* absent, 0 or 8.
LayoutDocs ==
  {AbiInstr(<<TypeDecl(1), ClassDecl(2, <<>>),
              ClassDecl(3, <<WithAttrs(El("base-class", NoId, 2, <<>>), a),
                             WithAttrs(Wrap("data-member", VarDecl(1)), b)>>)>>) :
     a, b \in Attributes({"layout-offset-in-bits"}, {<<"0">>, <<"8">>})}

\* A declaration-only class that has children all the same: a base class
\* and members of every kind; an element follows it.
StubWithChildrenDocs ==
  {AbiInstr(<<TypeDecl(1), ClassDecl(2, <<>>)>>
            \o <<[ClassDecl(3, <<El("base-class", NoId, 2, <<>>)>> \o m)
                    EXCEPT !.declonly = TRUE],
                 TypeDecl(Auto)>>) :
     m \in MemberLists(1) \cup MemberLists(2)}
  \cup {AbiInstr(<<[ClassDecl(3, m) EXCEPT !.declonly = TRUE],
                   TypeDecl(Auto)>>) :
          m \in MemberLists(1) \cup MemberLists(2)}

\* The elements that take a location, under the cursor of the driver and
\* inside a class where a builder reads them, with every choice among the
\* filepath, line and column attributes.
LocationDocs ==
  {AbiInstr(<<WithAttrs(TypeDecl(1), a)>>) :
     a \in Attributes({"filepath", "line", "column"}, {<<"7">>})}
  \cup {AbiInstr(<<TypeDecl(1), x>>) :
          x \in UNION {{WithAttrs(PointerTypeDef(2, 1), a),
                        WithAttrs(NamespaceDecl(<<>>), a),
                        WithAttrs(VarDecl(1), a),
                        ClassDecl(2, <<Wrap("member-type",
                                            WithAttrs(PointerTypeDef(3, 1), a))>>)} :
                       a \in Attributes({"filepath", "line", "column"},
                                        {<<"7">>})}}

\* The sequences of at most n elements of S.
RECURSIVE SeqsUpTo(_, _)
SeqsUpTo(S, n) ==
  IF n = 0 THEN {<<>>}
  ELSE SeqsUpTo(S, n - 1)
       \cup {<<x>> \o l : x \in S, l \in {y \in SeqsUpTo(S, n - 1) : Len(y) = n - 1}}

\* What a template declaration may hold: a parameter of each of the four
\* kinds, a pattern, an element no builder knows.
TemplateChildren(pattern) ==
  {TypeTParameter(NoId), NonTypeTParameter(1),
   El("template-template-parameter", Auto, NoId, <<>>),
   El("template-parameter-type-composition", NoId, NoId, <<>>),
   pattern, El("elf-symbol", NoId, NoId, <<>>)}

\* A function template and a class template with any children in any
\* order.
TemplateDocs ==
  {AbiInstr(<<TypeDecl(1), El("function-template-decl", 5, NoId, ks)>>) :
     ks \in SeqsUpTo(TemplateChildren(FunctionDecl(<<>>)), MaxTemplateChildren)}
  \cup {AbiInstr(<<TypeDecl(1), El("class-template-decl", 5, NoId, ks)>>) :
          ks \in SeqsUpTo(TemplateChildren(ClassDecl(Auto, <<>>)),
                          MaxTemplateChildren)}

\* A class whose first member cannot be built and does not end the
\* process: a member template without ID, a data member that is no
\* variable; a second member follows.
FailingMemberDocs ==
  {AbiInstr(<<ClassDecl(2, <<Wrap(w, x), Wrap("member-type", TypeDecl(Auto))>>)>>) :
     w \in {"member-template", "data-member"},
     x \in {El("function-template-decl", NoId, NoId, <<>>), TypeDecl(Auto)}}

\* Roots with a path and an address size: the expected ones and others.
Rooted(n) == WithPath(WithAttrs(n, "address-size" :> <<"8">>), "a.cc")

UnitRootDocs ==
  {Rooted(AbiInstr(<<TypeDecl(1)>>)), Rooted(AbiCorpus(<<TypeDecl(1)>>)),
   WithAttrs(AbiInstr(<<TypeDecl(1)>>), "address-size" :> <<"4">>)}

CorpusRootDocs ==
  {Rooted(AbiCorpus(<<AbiInstr(<<TypeDecl(1)>>)>>)),
   Rooted(AbiInstr(<<TypeDecl(1)>>)),
   AbiCorpus(<<AbiInstr(<<TypeDecl(1)>>), Rooted(AbiCorpus(<<>>))>>),
   AbiCorpus(<<AbiInstr(<<TypeDecl(1)>>), Rooted(AbiInstr(<<TypeDecl(2)>>))>>)}

\* Corpora whose first unit ends deep inside classes or namespaces.
DeepCorpusDocs ==
  {AbiCorpus(<<AbiInstr(<<TypeDecl(1)>> \o a), AbiInstr(<<TypeDecl(1)>>)>>) :
     a \in {<<OneMember(2)>>,
            <<NamespaceDecl(<<OneMember(2)>>)>>,
            <<ClassDecl(3, <<Wrap("member-type", OneMember(2))>>)>>,
            <<NamespaceDecl(<<NamespaceDecl(<<TypeDecl(2)>>)>>)>>,
            <<OneMember(2), TypeDecl(3)>>}}

\* Templates without ID or with the ID of a template met before, directly
\* in the unit and as member templates of a class.
TemplateIdDocs ==
  {AbiInstr(<<TypeDecl(1), t1, ClassDecl(2, <<Wrap("member-template", t2)>>)>>) :
     t1 \in {FunctionTdecl(1), ClassTdecl(1, ClassDecl(3, <<>>)), TypeDecl(4)},
     t2 \in {FunctionTdecl(1), FunctionTdecl(NoId),
             ClassTdecl(1, ClassDecl(5, <<>>)),
             ClassTdecl(NoId, ClassDecl(5, <<>>))}}
  \cup {AbiInstr(<<TypeDecl(1), t1, t2>>) :
          t1 \in {FunctionTdecl(1), ClassTdecl(1, ClassDecl(3, <<>>))},
          t2 \in {FunctionTdecl(1), FunctionTdecl(NoId),
                  ClassTdecl(1, ClassDecl(5, <<>>)),
                  ClassTdecl(NoId, ClassDecl(5, <<>>))}}

\* A type element of each kind without its id attribute.
NoIdDocs ==
  {AbiInstr(<<TypeDecl(1), x>>) :
     x \in {TypeDecl(NoId), ClassDecl(NoId, <<>>), EnumDecl(NoId, 1)}
           \cup {El(t, NoId, 1, <<>>) : t \in ReferringTags}}
  \cup {AbiInstr(<<TypeDecl(NoId)>>)}

Inputs ==
  {[mode |-> "unit", docs |-> <<d>>] :
     d \in ShapeDocs \cup RefDocs \cup StubDocs \cup NestDocs \cup EnumDocs
           \cup BasicTypeDocs \cup MemberFunctionDocs \cup LayoutDocs
           \cup StubWithChildrenDocs \cup LocationDocs \cup TemplateDocs
           \cup FailingMemberDocs \cup UnitRootDocs \cup TemplateIdDocs
           \cup NoIdDocs
           \cup {AbiCorpus(<<>>)}}
  \cup {[mode |-> "corpus", docs |-> <<d>>] :
          d \in CorpusDocs \cup CorpusRootDocs \cup DeepCorpusDocs}
  \cup {[mode |-> "archive", docs |-> a] : a \in Archives}

\* What libzip may answer for an archive: it does not open, or it opens
\* and any of its entries may fail to open.
ZipAnswers(inp) ==
  IF inp.mode # "archive" THEN {[opens |-> TRUE, files |-> {}]}
  ELSE {[opens |-> FALSE, files |-> {}]}
       \cup {[opens |-> TRUE, files |-> f] : f \in SUBSET (1..Len(inp.docs))}

----------------------------------------------------------------------------
(* The reader.                                                             *)

\* The state a run starts in, its input being one of inps.
Start(inps) ==
  \E inp \in inps, pretty \in BOOLEAN, nd \in BOOLEAN, u \in {"crash", "elide"} :
    /\ mode = inp.mode
    /\ ndebug = nd
    /\ ub = u
    /\ atoi_overflow \in {"truncate", "saturate"}
    /\ archive = [i \in 1..Len(inp.docs) |->
                    Events(Label(inp.docs[i], 0), <<>>, pretty)]
    /\ entry = IF inp.mode = "archive" THEN 0 ELSE 1
    /\ pos = 0
    /\ m_depth = 0
    /\ m_decls_stack = <<>>
    /\ m_types_map = EmptyMap
    /\ m_fn_tmpl_map = EmptyMap
    /\ m_class_tmpl_map = EmptyMap
    /\ ir = <<>>
    /\ tu = IF inp.mode = "archive" THEN 0 ELSE 1
    /\ corp = <<>>
    /\ pc = CASE inp.mode = "unit" -> "unit_begin"
              [] inp.mode = "corpus" -> "corpus_begin"
              [] OTHER -> "archive_open"
    /\ is_ok = FALSE
    /\ result = "none"
    /\ log = <<>>
    /\ zip \in ZipAnswers(inp)
    /\ nb_of_tu_read = 0
    /\ tu_paths = IF inp.mode = "archive" THEN <<>> ELSE <<"">>
    /\ tu_has_address_size = IF inp.mode = "archive" THEN <<>> ELSE <<FALSE>>
    /\ corp_path = <<>>

Init == Start(Inputs)

\* The documents the runs of LiveSpec read.  Each unit of a corpus holds
\* a type-decl and one element more: one of each kind handle_element
\* knows, a template handle_element refuses, an element it does not know,
\* or nothing.  The corpora have one unit or two, or a root that is no
\* abi-corpus; a unit on its own and an archive of two units are read too.
LiveElements ==
  {NamespaceDecl(<<TypeDecl(2)>>),
   NamespaceDecl(<<NamespaceDecl(<<TypeDecl(2)>>)>>),
   PointerTypeDef(2, 1), PointerTypeDef(2, 3),
   El("reference-type-def", 2, 1, <<>>), El("qualified-type-def", 2, 1, <<>>),
   El("typedef-decl", 2, 1, <<>>), EnumDecl(2, 1), VarDecl(1),
   FunctionDecl(<<>>), ClassDecl(2, <<>>), FunctionTdecl(NoId),
   ClassTdecl(NoId, ClassDecl(3, <<>>)), El("elf-symbol", NoId, NoId, <<>>)}

LiveBodies == {<<TypeDecl(1)>>} \cup {<<TypeDecl(1), k>> : k \in LiveElements}

LiveInputs ==
  {[mode |-> "corpus", docs |-> <<d>>] :
     d \in {AbiCorpus(<<AbiInstr(a), AbiInstr(<<TypeDecl(1)>>)>>) : a \in LiveBodies}
           \cup {AbiCorpus(<<AbiInstr(<<TypeDecl(1)>>), AbiInstr(a)>>) : a \in LiveBodies}
           \cup {AbiCorpus(<<>>), AbiCorpus(<<TypeDecl(1)>>),
                 AbiInstr(<<TypeDecl(1)>>)}
           \cup CorpusRootDocs}
  \cup {[mode |-> "unit", docs |-> <<AbiInstr(a)>>] : a \in LiveBodies}
  \cup {[mode |-> "archive",
         docs |-> <<AbiInstr(<<TypeDecl(1)>>), AbiInstr(<<TypeDecl(1)>>)>>]}

LiveInit == Start(LiveInputs)

Next ==
  \/ ReadTranslationUnitBegin
  \/ AdvanceCursor
  \/ HandleNamespaceDecl
  \/ HandleTypeDecl
  \/ HandleQualifiedTypeDecl
  \/ HandlePointerTypeDef
  \/ HandleReferenceTypeDef
  \/ HandleEnumTypeDecl
  \/ HandleTypedefDecl
  \/ HandleVarDecl
  \/ HandleFunctionDecl
  \/ HandleClassDecl
  \/ HandleFunctionTdecl
  \/ HandleClassTdecl
  \/ HandleUnknown
  \/ ReadTranslationUnitReturn
  \/ ReadCorpusBegin
  \/ ReadCorpusLoop
  \/ ReadCorpusFromFile
  \/ ReadCorpusFromArchiveLoop
  \/ ReadToTranslationUnitReturn

Spec == Init /\ [][Next]_vars

\* The reader runs on one thread and no step of it waits for anything: a
\* step that can be taken is taken.
LiveSpec == LiveInit /\ [][Next]_vars /\ WF_vars(Next)

----------------------------------------------------------------------------
(* The three registries on their own: any sequence of at most MaxOps calls *)
(* of the members of read_context that touch the ID tables, over the IDs   *)
(* RegIds and the nodes RegNodes; log is the history of the calls, is_ok   *)
(* the bool the last call returned.                                        *)

RegIds == 1..MaxRegIds

RegNodes == 1..MaxRegNodes

\* A call: the context r it leaves and the entry it adds to the history.
Call(r, op, id, node) ==
  /\ pc = "registry"
  /\ Len(log) < MaxOps
  /\ Commit(r)
  /\ is_ok' = r.okb
  /\ log' = Append(log, [op |-> op, id |-> id, node |-> node, ret |-> r.okb])
  /\ UNCHANGED <<mode, zip, nb_of_tu_read, tu_paths, tu_has_address_size, ndebug,
             ub, atoi_overflow, corp_path,
             archive, entry,
                 pos, tu, corp, pc, result>>

KeyTypeDecl ==
  \E id \in RegIds, n \in RegNodes :
    Call(key_type_decl(Ctx, n, id), "key_type_decl", id, n)

KeyFnTmplDecl ==
  \E id \in RegIds, n \in RegNodes :
    Call(key_fn_tmpl_decl(Ctx, n, id), "key_fn_tmpl_decl", id, n)

KeyClassTmplDecl ==
  \E id \in RegIds, n \in RegNodes :
    Call(key_class_tmpl_decl(Ctx, n, id), "key_class_tmpl_decl", id, n)

KeyReplacementOfTypeDecl ==
  \E id \in RegIds, n \in RegNodes :
    Call(key_replacement_of_type_decl(Ctx, n, id),
         "key_replacement_of_type_decl", id, n)

ClearTypeMap == Call(RetB(clear_type_map(Ctx), TRUE), "clear_type_map", NoId, NULL)

\* The entry of a lookup holds the node it returned.
GetTypeDecl ==
  \E id \in RegIds :
    Call(RetB(Ctx, TRUE), "get_type_decl", id, get_type_decl(Ctx, id))

RegInit ==
  /\ mode = "registry"
  /\ ndebug \in BOOLEAN
  /\ ub = "crash"
  /\ archive = <<>>
  /\ entry = 0
  /\ pos = 0
  /\ m_depth = 0
  /\ m_decls_stack = <<>>
  /\ m_types_map = EmptyMap
  /\ m_fn_tmpl_map = EmptyMap
  /\ m_class_tmpl_map = EmptyMap
  /\ ir = [n \in RegNodes |-> Node("type_decl", <<n>>, 1)]
  /\ tu = 1
  /\ corp = <<>>
  /\ pc = "registry"
  /\ is_ok = FALSE
  /\ result = "none"
  /\ log = <<>>
  /\ zip = [opens |-> TRUE, files |-> {}]
  /\ nb_of_tu_read = 0
  /\ tu_paths = <<>>
  /\ atoi_overflow = "truncate"
  /\ tu_has_address_size = <<>>
  /\ corp_path = <<>>

RegNext ==
  \/ KeyTypeDecl
  \/ KeyFnTmplDecl
  \/ KeyClassTmplDecl
  \/ KeyReplacementOfTypeDecl
  \/ ClearTypeMap
  \/ GetTypeDecl

RegSpec == RegInit /\ [][RegNext]_vars

----------------------------------------------------------------------------
(* What the properties below read off a run.                               *)

\* The elements the reader turns into a scope of the IR.
ScopeTags ==
  {"abi-instr", "namespace-decl", "class-decl", "function-template-decl",
   "class-template-decl"}

\* The document the node h was built from: the units of an archive are its
\* entries, the units of the other entry points share one document.
DocOf(h) == archive[IF mode = "archive" THEN ir[h].tu ELSE 1]

\* Index in the stream s of the element whose path is p.
IndexOf(s, p) == CHOOSE e \in 1..Len(s) : s[e].k = "elem" /\ s[e].path = p

ElementAt(s, p) == s[IndexOf(s, p)].node

\* The element the node h was built from.
ElementOf(h) == ElementAt(DocOf(h), ir[h].elem)

\* The paths of the elements that enclose the element at p and stand for a
\* scope: its ancestors but for the member wrappers.
Enclosing(s, p) ==
  {q \in {SubSeq(p, 1, k) : k \in 0..(Len(p) - 1)} :
     ElementAt(s, q).tag \in ScopeTags}

\* The path of the innermost of them.
Encloser(s, p) ==
  CHOOSE q \in Enclosing(s, p) : \A r \in Enclosing(s, p) : Len(r) <= Len(q)

\* The nodes pushed on the stack: every node but the unit's global scope,
\* which push_decl puts there, and the parameters of functions.
Pushed == {h \in 1..Len(ir) : ir[h].kind \notin {"global_scope", "parameter"}}

\* The stack stk holds exactly the nodes built from the elements at the
\* paths ps, outermost first.
HoldsExactly(stk, ps) ==
  /\ Len(stk) = Cardinality(ps)
  /\ \A i \in 1..Len(stk) :
       /\ ir[stk[i]].elem \in ps
       /\ ir[stk[i]].kind \in ScopeKinds
       /\ \A j \in 1..(i - 1) : Len(ir[stk[j]].elem) < Len(ir[stk[i]].elem)

\* Whether the document is written with whitespace between its elements.
IsPretty ==
  \A e \in 1..Len(archive) : \E i \in 1..Len(archive[e]) : archive[e][i].k = "text"

----------------------------------------------------------------------------
\* C1: for every unit document, at the moment an element is built the scope
\* get_cur_scope returns is the IR scope built from the element that
\* textually encloses it (the global scope directly under the root), and
\* the top of the declaration stack is that enclosing declaration.
ScopeIsEncloser ==
  mode = "unit" =>
    \A h \in Pushed :
      \E sc \in 1..Len(ir) :
        /\ ir[sc].elem = Encloser(DocOf(h), ir[h].elem)
        /\ ir[sc].kind \in ScopeKinds
        /\ ir[h].cur = sc
        /\ ir[h].stk # <<>>
        /\ ir[h].stk[Len(ir[h].stk)] = sc

\* The same, for the documents written with whitespace between elements.
ScopeIsEncloserWhenPretty == IsPretty => ScopeIsEncloser

\* A member of a member class of a class in a namespace has been built.
DeepMemberBuilt ==
  /\ mode = "unit"
  /\ IsPretty
  /\ \E h \in Pushed :
       /\ Cardinality(Enclosing(DocOf(h), ir[h].elem)) >= 3
       /\ ir[ir[h].cur].kind = "class_decl"

----------------------------------------------------------------------------
\* The element at index k of the stream s is a class containing exactly one
\* data-member wrapping one var-decl.
IsOneMemberClass(s, k) ==
  /\ s[k].k = "elem"
  /\ s[k].node.tag = "class-decl"
  /\ Len(s[k].node.kids) = 1
  /\ s[k].node.kids[1].tag = "data-member"
  /\ Len(s[k].node.kids[1].kids) = 1
  /\ s[k].node.kids[1].kids[1].tag = "var-decl"

\* The node h was built from the next element after the class at index k of
\* its document, a sibling of the class or of one of its ancestors: nothing
\* but whitespace and closing tags lies between the two; the class and its
\* member have been built.
IsNextAfter(h, k) ==
  /\ IsOneMemberClass(DocOf(h), k)
  /\ IndexOf(DocOf(h), ir[h].elem) > EndOf(DocOf(h), k)
  /\ \A e \in (EndOf(DocOf(h), k) + 1)..(IndexOf(DocOf(h), ir[h].elem) - 1) :
       DocOf(h)[e].k # "elem"
  /\ \E cl \in 1..Len(ir), v \in 1..Len(ir) :
       /\ ir[cl].kind = "class_decl"
       /\ ir[cl].tu = ir[h].tu
       /\ ir[cl].elem = DocOf(h)[k].path
       /\ ir[v].kind = "var_decl"
       /\ ir[v].tu = ir[h].tu
       /\ ir[v].elem = DocOf(h)[k].path \o <<1, 1>>
       /\ ir[v].stk # <<>>
       /\ ir[v].stk[Len(ir[v].stk)] = cl

\* C2: when the next element after a class with exactly one data-member
\* wrapping one var-decl is observed, the stack holds exactly the ancestors
\* of the new element and nothing of the class: the member took one entry
\* off the stack for its two XML levels.
OneMemberPoppedOnce ==
  \A h \in Pushed :
    \A k \in 1..Len(DocOf(h)) :
      IsNextAfter(h, k) =>
        HoldsExactly(ir[h].stk, Enclosing(DocOf(h), ir[h].elem))

\* The next element built after such a class is a sibling of an ancestor of
\* the class, itself inside a scope.
AncestorSiblingAfterOneMember ==
  \E h \in Pushed :
    \E k \in 1..Len(DocOf(h)) :
      /\ IsNextAfter(h, k)
      /\ Len(ir[h].elem) < Len(DocOf(h)[k].path)
      /\ Len(ir[h].stk) >= 2

----------------------------------------------------------------------------
\* The nodes that hold the type a builder looked up by ID.
ReferringKinds ==
  {"pointer_type_def", "reference_type_def", "qualified_type_def",
   "typedef_decl", "enum_type_decl", "var_decl", "non_type_tparameter"}

\* C3: no node holding a null referent is ever constructed: the pointee of
\* a pointer or reference, the underlying type of a qualified type, typedef
\* or enum, the type of a variable, of a non-type template parameter and of
\* a parameter that names one, and the base of a base-class are all nodes.
\* Stated for the documents written with whitespace between elements, the
\* ones the driver reads element by element.
NoNullReferent ==
  IsPretty =>
    \A h \in 1..Len(ir) :
      /\ ir[h].kind \in ReferringKinds => ir[h].ref # NULL
      /\ (ir[h].kind = "parameter" /\ ir[h].tid # NoId) => ir[h].ref # NULL
      /\ \A b \in 1..Len(ir[h].bases) : ir[h].bases[b].ref # NULL

\* The same where assert() is compiled in.
NoNullReferentWithAsserts == ~ndebug => NoNullReferent

\* A node was built around a type ID that no element had registered, and
\* pushed on the stack.
NullReferentBuilt ==
  /\ IsPretty
  /\ \E h \in 1..Len(ir) :
       /\ ir[h].kind \in ReferringKinds
       /\ ir[h].tid # NoId
       /\ ir[h].ref = NULL
       /\ \E i \in 1..Len(m_decls_stack) : m_decls_stack[i] = h

----------------------------------------------------------------------------
\* The last call of the history, in the state an action leads to.
Called(op) == Len(log') = Len(log) + 1 /\ log'[Len(log')].op = op

\* What get_type_decl returns for id when the table of types is map.
TypeIn(map, id) == get_type_decl([Ctx EXCEPT !.types = map], id)

\* The table next holds what the table map held, but possibly at id.
SameBut(map, next, id) ==
  \A x \in (DOMAIN map \cup DOMAIN next) \ {id} :
    /\ x \in DOMAIN map
    /\ x \in DOMAIN next
    /\ next[x] = map[x]

\* C4: in each of the three registries, registering an ID that already maps
\* to a node returns false and changes no entry of any table.
DuplicateKeyFails ==
  [][\A id \in RegIds :
       (\/ Called("key_type_decl") /\ id \in DOMAIN m_types_map
        \/ Called("key_fn_tmpl_decl") /\ id \in DOMAIN m_fn_tmpl_map
        \/ Called("key_class_tmpl_decl") /\ id \in DOMAIN m_class_tmpl_map)
       /\ log'[Len(log')].id = id
       => /\ ~is_ok'
          /\ UNCHANGED <<m_types_map, m_fn_tmpl_map, m_class_tmpl_map>>]_vars

\* A registration has just failed on an ID that maps to another node, in a
\* table that holds a second ID.
DuplicateKeyRefused ==
  /\ mode = "registry"
  /\ Len(log) = MaxOps
  /\ log[Len(log)].op \in {"key_type_decl", "key_fn_tmpl_decl", "key_class_tmpl_decl"}
  /\ ~log[Len(log)].ret
  /\ \E i \in 1..(Len(log) - 1) :
       /\ log[i].op = log[Len(log)].op
       /\ log[i].id = log[Len(log)].id
       /\ log[i].node # log[Len(log)].node
       /\ log[i].ret
  /\ \E i \in 1..(Len(log) - 1) :
       /\ log[i].op = log[Len(log)].op
       /\ log[i].id # log[Len(log)].id
       /\ log[i].ret

SinceClear(h) ==
  {i \in 1..Len(h) : \A j \in i..Len(h) : h[j].op # "clear_type_map"}

Replacements(id, h) ==
  {i \in SinceClear(h) :
     h[i].op = "key_replacement_of_type_decl" /\ h[i].id = id}

Registrations(id, h) ==
  {i \in SinceClear(h) : h[i].op = "key_type_decl" /\ h[i].id = id /\ h[i].ret}

\* The node the history h leaves id mapped to: that of the latest
\* replacement or else of the first registration that succeeded, since the
\* last clear; none when there was neither.
Expected(id, h) ==
  IF Replacements(id, h) # {}
    THEN h[CHOOSE i \in Replacements(id, h) :
             \A j \in Replacements(id, h) : j <= i].node
  ELSE IF Registrations(id, h) # {}
    THEN h[CHOOSE i \in Registrations(id, h) :
             \A j \in Registrations(id, h) : i <= j].node
  ELSE NULL

\* C6: after any sequence of register, replace, clear and lookup calls on
\* the table of types, get_type_decl(id) returns the node of the latest
\* replace for id or else of the first successful register for id since the
\* last clear, and none when there was none; so did every lookup made.
LookupFollowsHistory ==
  /\ \A id \in RegIds : get_type_decl(Ctx, id) = Expected(id, log)
  /\ \A i \in 1..Len(log) :
       log[i].op = "get_type_decl"
         => log[i].node = Expected(log[i].id, SubSeq(log, 1, i - 1))

\* A lookup returned the node first registered under an ID that a second
\* registration then failed to take.
FirstRegistrationLookedUp ==
  /\ mode = "registry"
  /\ Len(log) = MaxOps
  /\ log[Len(log)].op = "get_type_decl"
  /\ log[Len(log)].node # NULL
  /\ \E i \in 1..Len(log), j \in 1..Len(log) :
       /\ i < j
       /\ log[i].op = "key_type_decl" /\ log[i].ret
       /\ log[j].op = "key_type_decl" /\ ~log[j].ret
       /\ log[i].id = log[Len(log)].id
       /\ log[j].id = log[Len(log)].id
       /\ log[i].node = log[Len(log)].node
       /\ log[j].node # log[i].node

----------------------------------------------------------------------------
\* The driver has not ended on abort() or on a fault.
Running == pc \notin {"aborted", "crashed"}

\* The node d is a class built from a full definition that names, with
\* def-of-decl-id, an ID mapped to the declaration-only class st built
\* before it.
IsDefinitionOf(d, st) ==
  /\ ir[d].kind = "class_decl"
  /\ ~ElementOf(d).declonly
  /\ ElementOf(d).defid # NoId
  /\ get_type_decl(Ctx, ElementOf(d).defid) = st
  /\ st < d
  /\ ir[st].kind = "class_decl"
  /\ ElementOf(st).declonly
  /\ ElementOf(st).id = ElementOf(d).defid

\* C7: once a full definition with def-of-decl-id="C1" has been built after
\* a declaration-only class registered under C1, the lookup of C1 yields
\* the definition, not the stub.  Stated for the documents written with
\* whitespace between elements and the runs that have not aborted.
LookupYieldsDefinition ==
  (mode = "unit" /\ Running /\ IsPretty) =>
    \A d \in 1..Len(ir) :
      (ir[d].kind = "class_decl" /\ ir[d].earlier # NULL) =>
        get_type_decl(Ctx, ElementOf(d).defid) = d

\* A definition has been built after its stub, in a document written with
\* whitespace between its elements, and the driver reads on.
DefinitionBuiltAfterStub ==
  /\ mode = "unit"
  /\ IsPretty
  /\ pc = "advance"
  /\ \E d \in 1..Len(ir) :
       /\ ir[d].kind = "class_decl"
       /\ ir[d].earlier # NULL
       /\ ElementOf(ir[d].earlier).id = ElementOf(d).defid
       /\ ir[d].mbrs # <<>>

\* C8: the definition built from a full class definition whose
\* def-of-decl-id names an ID mapped to a declaration-only class has that
\* stub as its earlier declaration; the stub has no members and no base
\* classes; the nodes that referred to the stub still refer to it.
StubIsEarlierDeclaration ==
  (mode = "unit" /\ Running) =>
    \A d \in 1..Len(ir), st \in 1..Len(ir) :
      IsDefinitionOf(d, st) =>
        /\ ir[d].earlier = st
        /\ ir[st].declonly
        /\ ir[st].mbrs = <<>>
        /\ ir[st].bases = <<>>
        /\ \A p \in (st + 1)..Len(ir) :
             (ir[p].kind \in ReferringKinds /\ ir[p].tid = ElementOf(st).id)
               => ir[p].ref = st

\* The same, for the documents written with whitespace between elements.
StubIsEarlierDeclarationWhenPretty == IsPretty => StubIsEarlierDeclaration

\* A definition was built after a stub something already pointed to.
ReferredStubDefined ==
  /\ mode = "unit"
  /\ Running
  /\ \E d \in 1..Len(ir), st \in 1..Len(ir), p \in 1..Len(ir) :
       /\ IsDefinitionOf(d, st)
       /\ st < p /\ p < d
       /\ ir[p].ref = st

----------------------------------------------------------------------------
\* read_translation_unit_from_input has recognized an abi-instr and pushed
\* the global scope of the unit; no element of the unit is built yet.
UnitBegun ==
  /\ pc = "advance"
  /\ ir # <<>>
  /\ ir[Len(ir)].kind = "global_scope"
  /\ m_decls_stack = <<Len(ir)>>

\* C9: when a translation unit begins, the tables of types, of function
\* templates and of class templates are all empty.
TablesEmptyWhenUnitBegins ==
  UnitBegun =>
    /\ DOMAIN m_types_map = {}
    /\ DOMAIN m_fn_tmpl_map = {}
    /\ DOMAIN m_class_tmpl_map = {}

\* The second unit of an abi-corpus document begins.
SecondUnitBegun == UnitBegun /\ mode = "corpus" /\ tu = 2

----------------------------------------------------------------------------
\* C10: every lookup of a type ID made while a unit is built returns a node
\* of that unit: the table of types holds only nodes of the unit being
\* built, and what a node keeps of a lookup (its referent, its bases, its
\* earlier declaration) is a node of its own unit.
LookupsStayInUnit ==
  /\ pc \in {"advance", "handle"} =>
       \A id \in DOMAIN m_types_map : ir[m_types_map[id]].tu = tu
  /\ \A h \in 1..Len(ir) :
       /\ ir[h].ref # NULL => ir[ir[h].ref].tu = ir[h].tu
       /\ ir[h].earlier # NULL => ir[ir[h].earlier].tu = ir[h].tu
       /\ \A b \in 1..Len(ir[h].bases) :
            ir[h].bases[b].ref # NULL => ir[ir[h].bases[b].ref].tu = ir[h].tu

\* A node of the second unit refers to the type its unit registered under
\* an ID the first unit had registered too.
SameIdInTwoUnits ==
  /\ mode \in {"corpus", "archive"}
  /\ \E h1 \in 1..Len(ir), h2 \in 1..Len(ir) :
       /\ ir[h1].tu = 1
       /\ ir[h1].kind = "type_decl"
       /\ ir[h2].tu = 2
       /\ ir[h2].ref # NULL
       /\ ir[h2].tid = ElementOf(h1).id
       /\ ElementOf(ir[h2].ref).id = ElementOf(h1).id

----------------------------------------------------------------------------
\* The reader of the current document has no node left to read.
EndOfInput == pos > Len(Stream)

\* The global scope of the unit being read was pushed.
RootPushed == \E h \in 1..Len(ir) : ir[h].kind = "global_scope" /\ ir[h].tu = tu

\* C11: when read_translation_unit_from_input returns with the stack of
\* declarations empty and nodes left in the stream, it returns false; it
\* returns true only at the end of the input with the root scope still on
\* the stack.
EmptyStackIsFailure ==
  pc = "unit_end" =>
    /\ (RootPushed /\ m_decls_stack = <<>> /\ ~EndOfInput) => ~is_ok
    /\ is_ok => (EndOfInput /\ m_decls_stack # <<>>)

\* A unit was read to the end of its input with its root scope on the
\* stack, and the reader returned true.
UnitReadToTheEnd ==
  /\ pc = "unit_end"
  /\ is_ok
  /\ EndOfInput
  /\ m_decls_stack # <<>>
  /\ ir[m_decls_stack[1]].kind = "global_scope"
  /\ Len(ir) > 2

----------------------------------------------------------------------------
\* The streams of the well-formed unit documents.
WellFormedStreams ==
  {Events(Label(AbiInstr(b), 0), <<>>, p) : b \in WellFormedBodies, p \in BOOLEAN}

\* An archive that opens, whose entries all open and are well-formed.
WellFormedArchive ==
  /\ mode = "archive"
  /\ zip.opens
  /\ zip.files = 1..Len(archive)
  /\ archive # <<>>
  /\ \A i \in 1..Len(archive) : archive[i] \in WellFormedStreams

\* The process was ended by abort(), by a failed assert() or by a fault.
Died == pc \in {"aborted", "crashed"}

\* C13: read_corpus_from_archive on an archive of N well-formed entries
\* runs to its end and has then added one translation unit per entry to
\* the corpus, in the order of the entries; whatever the archive, the count
\* it returns is the number of units it added.
AllEntriesAppended ==
  /\ WellFormedArchive =>
       /\ ~Died
       /\ pc = "done" =>
            /\ result = "count"
            /\ corp = [i \in 1..Len(archive) |-> i]
  /\ (mode = "archive" /\ result = "count") => nb_of_tu_read = Len(corp)

\* The same, for the archives written with whitespace between elements.
AllEntriesAppendedWhenPretty == IsPretty => AllEntriesAppended

\* Two well-formed entries were read and their two units returned.
TwoEntriesRead ==
  /\ WellFormedArchive
  /\ IsPretty
  /\ pc = "done"
  /\ Len(archive) = 2
  /\ corp = <<1, 2>>
  /\ nb_of_tu_read = 2

\* C14: an entry that cannot be parsed does not end the archive driver: it
\* goes on to the entries that follow, a failed entry adds no unit, and the
\* count returned is the number of the entries parsed.  Stated for the
\* archives written with whitespace between elements, that open and whose
\* entries open.
DriverSurvivesEntry ==
  (mode = "archive" /\ IsPretty /\ zip.opens /\ zip.files = 1..Len(archive)) =>
    /\ ~Died
    /\ pc = "done" =>
         /\ entry = Len(archive)
         /\ result = "count"
         /\ nb_of_tu_read = Len(corp)
         /\ \A i \in 1..Len(archive) :
              archive[i] \notin WellFormedStreams => \A j \in 1..Len(corp) : corp[j] # i

\* An entry whose root is not abi-instr was refused and the entry after it
\* was read.
EntryAfterRefusedRead ==
  /\ mode = "archive"
  /\ IsPretty
  /\ pc = "done"
  /\ Len(archive) = 2
  /\ archive[1][1].node.tag = "abi-corpus"
  /\ corp = <<2>>
  /\ nb_of_tu_read = 1

\* C15: every unit the archive driver added to the corpus has for path the
\* name of the entry it was read from.
PathIsEntryName ==
  mode = "archive" =>
    \A i \in 1..Len(corp) : tu_paths[corp[i]] = zip_get_name(corp[i])

\* A unit read from an entry whose root carries a path attribute was added.
UnitWithPathAttributeAdded ==
  /\ mode = "archive"
  /\ \E i \in 1..Len(corp) : archive[corp[i]][1].node.path # <<>>

\* C16: when the archive does not open no entry is processed, when an
\* entry does not open no later entry is processed, and in both cases the
\* operation returns an error and not a count.
IoErrorStopsArchive ==
  mode = "archive" =>
    /\ ~zip.opens => (entry = 0 /\ (pc = "done" => result = "error"))
    /\ \A i \in 1..entry :
         i \notin zip.files => (entry = i /\ (pc = "done" => result = "error"))

\* The archive did not open and the operation returned the error.
ArchiveNotOpened ==
  /\ mode = "archive"
  /\ ~zip.opens
  /\ archive # <<>>
  /\ pc = "done"
  /\ result = "error"

\* C17: read_corpus_from_input does not return true with a corpus of no
\* translation unit.
NoEmptySuccess == (mode = "corpus" /\ result = "true") => corp # <<>>

\* The element after the root of the corpus document was not an abi-instr
\* and the driver has returned.
FirstUnitNotRead ==
  /\ mode = "corpus"
  /\ pc = "done"
  /\ corp = <<>>
  /\ Len(Stream) > 1
  /\ Stream[1].node.tag = "abi-corpus"
  /\ \E i \in 2..Len(Stream) : Stream[i].k = "elem" /\ Stream[i].node.tag = "type-decl"

\* The abi-corpus documents whose units are all well-formed.
WellFormedCorpus ==
  /\ mode = "corpus"
  /\ \E p \in BOOLEAN :
       \/ \E a \in WellFormedBodies :
            Stream = Events(Label(AbiCorpus(<<AbiInstr(a)>>), 0), <<>>, p)
       \/ \E a \in WellFormedBodies, b \in WellFormedBodies :
            Stream = Events(Label(AbiCorpus(<<AbiInstr(a), AbiInstr(b)>>), 0), <<>>, p)

\* Number of the abi-instr elements directly under the root of the stream s.
NbUnits(s) == Cardinality({i \in 1..Len(s) : s[i].k = "elem" /\ Len(s[i].path) = 1})

\* C18: read_corpus_from_input on an abi-corpus of N well-formed units runs
\* to its end and has then added N translation units to the corpus, in the
\* order of the document; every declaration built belongs to the unit of
\* the abi-instr that holds its element and is attached under the global
\* scope of that unit.
AllUnitsAppended ==
  WellFormedCorpus =>
    /\ ~Died
    /\ pc = "done" =>
         /\ result = "true"
         /\ corp = [i \in 1..NbUnits(Stream) |-> i]
    /\ \A h \in 1..Len(ir) :
         /\ ir[h].tu = ir[h].elem[1]
         /\ ir[h].scope # NULL => ir[ir[h].scope].tu = ir[h].tu
         /\ (ir[h].scope # NULL /\ Len(ir[h].elem) = 2) =>
              ir[ir[h].scope].kind = "global_scope"

\* The template declarations of the stream s.
TemplatesOf(s) ==
  {i \in 1..Len(s) :
     /\ s[i].k = "elem"
     /\ s[i].node.tag \in {"function-template-decl", "class-template-decl"}}

\* The same, for the documents written with whitespace between elements
\* in which no two units declare a template.
AllUnitsAppendedWhenTidy ==
  (mode = "corpus" /\ IsPretty /\ Cardinality(TemplatesOf(Stream)) < 2)
    => AllUnitsAppended

\* Two well-formed units of one abi-corpus were read and returned.
TwoUnitsRead ==
  /\ WellFormedCorpus
  /\ IsPretty
  /\ pc = "done"
  /\ corp = <<1, 2>>
  /\ \E h \in 1..Len(ir) : ir[h].tu = 2 /\ ir[h].kind = "pointer_type_def"

\* The enumerator children of the element e, in document order.
EnumeratorsOf(e) == SelectSeq(e.kids, LAMBDA k : k.tag = "enumerator")

\* The decimal text of the natural number n.
RECURSIVE decimal(_)
decimal(n) ==
  (IF n < 10 THEN <<>> ELSE decimal(n \div 10))
  \o <<CHOOSE ch \in DOMAIN Digits : Digits[ch] = n % 10>>

\* The text str without its leading zeros, but for the last one.
RECURSIVE significant(_)
significant(str) ==
  IF Len(str) > 1 /\ str[1] = "0" THEN significant(Tail(str)) ELSE str

\* The value v is the number the decimal text str writes.
IsValueOf(v, str) == v >= 0 /\ decimal(v) = significant(str)

\* C19: every enum type built from an enum-decl holds one enumerator per
\* enumerator child of the element, in document order, each with the
\* child's unescaped name and the number its value attribute writes in
\* decimal; the position of the underlying-type child among them, and two
\* enumerators of one name, change nothing.
EnumeratorsInDocumentOrder ==
  \A h \in 1..Len(ir) :
    ir[h].kind = "enum_type_decl" =>
      /\ Len(ir[h].enums) = Len(EnumeratorsOf(ElementOf(h)))
      /\ \A i \in 1..Len(ir[h].enums) :
           /\ ir[h].enums[i][1] =
                unescape_xml_string(EnumeratorsOf(ElementOf(h))[i].name)
           /\ IsValueOf(ir[h].enums[i][2], EnumeratorsOf(ElementOf(h))[i].val)

\* The names and the order are the document's in every case: the list has
\* one entry per enumerator child, in document order, with the child's
\* name, and the child's value wherever an int holds that value.
EnumeratorsInDocumentOrderWithinInt ==
  \A h \in 1..Len(ir) :
    ir[h].kind = "enum_type_decl" =>
      /\ Len(ir[h].enums) = Len(EnumeratorsOf(ElementOf(h)))
      /\ \A i \in 1..Len(ir[h].enums) :
           /\ ir[h].enums[i][1] =
                unescape_xml_string(EnumeratorsOf(ElementOf(h))[i].name)
           /\ Len(EnumeratorsOf(ElementOf(h))[i].val) < 10 =>
                IsValueOf(ir[h].enums[i][2],
                          EnumeratorsOf(ElementOf(h))[i].val)

\* An enum was built whose two enumerators bear one name and descending
\* values, with the underlying-type element between them.
EnumWithUnderlyingTypeInTheMiddle ==
  \E h \in 1..Len(ir) :
    /\ ir[h].kind = "enum_type_decl"
    /\ Len(ElementOf(h).kids) = 3
    /\ ElementOf(h).kids[2].tag = "underlying-type"
    /\ Len(ir[h].enums) = 2
    /\ ir[h].enums[1][1] = ir[h].enums[2][1]
    /\ ir[h].enums[1][2] = 15
    /\ ir[h].enums[2][2] = 0

\* C20: a document whose root holds one type-decl with an id, a name and a
\* size-in-bits is read to its end without the process dying, the read
\* returns true, and then the IR is the global scope and one basic type:
\* the type is the only member of the global scope, its scope is the
\* global scope, its name and its size are the ones the element writes,
\* and the table of types maps the id to it and holds nothing else.
OneBasicTypeRead ==
  \A d \in BasicTypeDocs, pretty \in BOOLEAN :
    (mode = "unit" /\ Stream = Events(Label(d, 0), <<>>, pretty)) =>
      /\ ~Died
      /\ pc = "done" =>
           /\ result = "true"
           /\ Len(ir) = 2
           /\ ir[1].kind = "global_scope"
           /\ ir[1].mbrs = <<2>>
           /\ ir[2].kind = "type_decl"
           /\ ir[2].scope = 1
           /\ ir[2].name = d.kids[1].name
           /\ IsValueOf(ir[2].size, d.kids[1].size)
           /\ DOMAIN m_types_map = {d.kids[1].id}
           /\ m_types_map[d.kids[1].id] = 2

\* The document <abi-instr><type-decl id='1' name='int' size-in-bits='32'/>
\* </abi-instr> was read and the read returned.
IntOf32BitsRead ==
  /\ mode = "unit"
  /\ pc = "done"
  /\ \E pretty \in BOOLEAN :
       Stream = Events(Label(AbiInstr(<<BasicType(1, <<"i", "n", "t">>,
                                                  <<"3", "2">>)>>), 0),
                       <<>>, pretty)
  /\ \E h \in 1..Len(ir) :
       ir[h].kind = "type_decl" /\ ir[h].name = <<"i", "n", "t">>
                                /\ ir[h].size = 32

----------------------------------------------------------------------------
\* The element that holds the element the node h was built from.
ParentOf(h) ==
  ElementAt(DocOf(h), SubSeq(ir[h].elem, 1, Len(ir[h].elem) - 1))

\* The attribute a of the element n is present with the value yes.
IsYes(n, a) == HasAttribute(n, a) /\ n.attrs[a] = Yes

\* C21: every member function built from a function-decl in a
\* member-function element has its constructor flag set iff the
\* member-function element has the attribute constructor with the value
\* yes, and the same for destructor and const, each flag following its own
\* attribute whatever the other two are.
FlagsReadIndependently ==
  \A h \in 1..Len(ir) :
    (ir[h].kind = "method_decl" /\ ir[h].scope # NULL) =>
      /\ ir[h].is_ctor = IsYes(ParentOf(h), "constructor")
      /\ ir[h].is_dtor = IsYes(ParentOf(h), "destructor")
      /\ ir[h].is_const = IsYes(ParentOf(h), "const")

\* A member function was added to its class from a member-function element
\* that says yes to constructor, destructor and const at once.
MemberFunctionWithThreeFlags ==
  \E h \in 1..Len(ir) :
    /\ ir[h].kind = "method_decl"
    /\ ir[h].scope # NULL
    /\ IsYes(ParentOf(h), "constructor")
    /\ IsYes(ParentOf(h), "destructor")
    /\ IsYes(ParentOf(h), "const")

\* The base-class children of the element e, in document order.
BaseClassesOf(e) == SelectSeq(e.kids, LAMBDA k : k.tag = "base-class")

\* The layout-offset-in-bits attribute of the element n is present.
HasOffset(n) == HasAttribute(n, "layout-offset-in-bits")

\* C22: the k-th base specifier of a class has the offset -1 iff the k-th
\* base-class child of its element has no layout-offset-in-bits attribute,
\* and otherwise the number the attribute writes, 0 included; a data member
\* of a class is flagged laid out iff its data-member element has the
\* attribute, whatever the value, and then has the offset it writes.
AbsentOffsetIsNotZero ==
  \A h \in 1..Len(ir) :
    /\ ir[h].kind = "class_decl" =>
         \A k \in 1..Len(ir[h].bases) :
           /\ k <= Len(BaseClassesOf(ElementOf(h)))
           /\ ~HasOffset(BaseClassesOf(ElementOf(h))[k]) <=>
                ir[h].bases[k].offset_in_bits = -1
           /\ HasOffset(BaseClassesOf(ElementOf(h))[k]) =>
                IsValueOf(ir[h].bases[k].offset_in_bits,
                          BaseClassesOf(ElementOf(h))[k].attrs[
                            "layout-offset-in-bits"])
    /\ (ir[h].kind = "var_decl" /\ ir[h].scope # NULL
        /\ ir[ir[h].scope].kind = "class_decl") =>
         /\ ir[h].is_laid_out = HasOffset(ParentOf(h))
         /\ HasOffset(ParentOf(h)) =>
              IsValueOf(ir[h].offset_in_bits,
                        ParentOf(h).attrs["layout-offset-in-bits"])

\* A class was built with a base class without offset and a data member
\* laid out at 0.
BaseUnspecifiedAndMemberAtZero ==
  \E h \in 1..Len(ir), v \in 1..Len(ir) :
    /\ ir[h].kind = "class_decl"
    /\ Len(ir[h].bases) = 1
    /\ ir[h].bases[1].offset_in_bits = -1
    /\ ir[v].kind = "var_decl"
    /\ ir[v].scope = h
    /\ ir[v].is_laid_out
    /\ ir[v].offset_in_bits = 0

\* The path q leads to an element inside the element at the path p.
IsInside(q, p) == Len(q) > Len(p) /\ SubSeq(q, 1, Len(p)) = p

\* C23: the class built from a class-decl with is-declaration-only=yes is
\* declaration-only and has no base classes and no members, at any time
\* of the read, and no node at all is built from an element inside that
\* class-decl, so that none is pushed on the stack of declarations or
\* entered in a table either.
StubHasNoChildren ==
  \A h \in 1..Len(ir) :
    (ir[h].kind = "class_decl" /\ ElementOf(h).declonly) =>
      /\ ir[h].declonly
      /\ ir[h].bases = <<>>
      /\ ir[h].mbrs = <<>>
      /\ \A k \in 1..Len(ir) :
           ir[k].tu = ir[h].tu => ~IsInside(ir[k].elem, ir[h].elem)

\* The same, for the documents written with whitespace between elements.
StubHasNoChildrenWhenPretty == IsPretty => StubHasNoChildren

\* In every document, no node is built from an element inside a class-decl
\* with is-declaration-only=yes, and the stub has no base classes.
StubChildrenNeverBuilt ==
  \A h \in 1..Len(ir) :
    (ir[h].kind = "class_decl" /\ ElementOf(h).declonly) =>
      /\ ir[h].declonly
      /\ ir[h].bases = <<>>
      /\ \A k \in 1..Len(ir) :
           ir[k].tu = ir[h].tu => ~IsInside(ir[k].elem, ir[h].elem)

\* A stub was built from a class-decl that has a base-class child and two
\* member children, and the element after the class-decl was built too.
StubBuiltFromClassWithChildren ==
  \E h \in 1..Len(ir) :
    /\ ir[h].kind = "class_decl"
    /\ ir[h].declonly
    /\ Len(ElementOf(h).kids) = 3
    /\ ElementOf(h).kids[1].tag = "base-class"
    /\ h < Len(ir)

\* The kinds of node whose construction takes the location read from the
\* element.
LocatedKinds ==
  {"type_decl", "var_decl", "class_decl", "enum_type_decl", "namespace_decl",
   "qualified_type_def", "pointer_type_def", "reference_type_def",
   "typedef_decl"}

\* The element n has a filepath but lacks a line or a column.
HalfLocated(n) ==
  /\ HasAttribute(n, "filepath")
  /\ ~HasAttribute(n, "line") \/ ~HasAttribute(n, "column")

\* C24: a node built from an element without filepath has the unknown
\* location, and no node is built from an element that has a filepath but
\* no line or no column: the build of that element fails.
HalfLocationIsAnError ==
  \A h \in 1..Len(ir) :
    ir[h].kind \in LocatedKinds =>
      /\ ~HasAttribute(ElementOf(h), "filepath") =>
           ir[h].loc = UnknownLocation
      /\ ~HalfLocated(ElementOf(h))

\* What holds instead: a node is built whatever location attributes the
\* element has, with the unknown location when the filepath is absent.
NoFilepathIsUnknownLocation ==
  \A h \in 1..Len(ir) :
    (ir[h].kind \in LocatedKinds /\ ~HasAttribute(ElementOf(h), "filepath"))
      => ir[h].loc = UnknownLocation

\* A node was built from an element under the cursor that has a filepath
\* and a line but no column, and another from an element without filepath.
HalfLocatedElementBuilt ==
  \E h \in 1..Len(ir) :
    /\ ir[h].kind = "pointer_type_def"
    /\ Len(ir[h].elem) = 1
    /\ HalfLocated(ElementOf(h))
    /\ \E k \in 1..Len(ir) :
         ir[k].kind = "type_decl" /\ ~HasAttribute(ElementOf(k), "filepath")

\* The tags of the four kinds of template parameter.
TemplateParameterTags ==
  {"template-type-parameter", "template-non-type-parameter",
   "template-template-parameter", "template-parameter-type-composition"}

\* The positions, among the children of the element e, of its template
\* parameters, in document order.
ParameterPositions(e) ==
  SelectSeq([i \in 1..Len(e.kids) |-> i],
            LAMBDA i : e.kids[i].tag \in TemplateParameterTags)

ReturnTypeResolved ==
  \A h \in 1..Len(ir) :
    (ir[h].kind \in {"function_decl", "method_decl"} /\ ir[h].tid # NoId)
      => ir[h].ref # NULL

\* A function whose return child names the ID 3, which no element
\* defines, was read in a build with assert() compiled in, and the read
\* went on.
ReturnOfUnregisteredTypeRead ==
  /\ ~ndebug
  /\ ~Died
  /\ \E h \in 1..Len(ir) :
       /\ ir[h].kind = "function_decl"
       /\ ir[h].tid = 3
       /\ 3 \notin DOMAIN m_types_map

\* The elements that wrap the members of a class.
MemberWrappers ==
  {"member-type", "data-member", "member-function", "member-template"}

\* The places <<i, j>> of the members of the class h, child j of the
\* wrapper that is child i of the class element, from which no node was
\* built: the members whose build failed or never started.
UnbuiltMembers(h) ==
  {p \in UNION {{<<i, j>> : j \in 1..Len(ElementOf(h).kids[i].kids)} :
                  i \in {x \in 1..Len(ElementOf(h).kids) :
                           ElementOf(h).kids[x].tag \in MemberWrappers}} :
     \A k \in 1..Len(ir) :
       ir[k].tu = ir[h].tu => ir[k].elem # ir[h].elem \o p}

\* The node k was built from a member of the class h that stands after
\* the place p.
BuiltAfter(k, h, p) ==
  /\ ir[k].tu = ir[h].tu
  /\ IsInside(ir[k].elem, ir[h].elem)
  /\ ir[k].elem[Len(ir[h].elem) + 1] > p[1]

\* C27: a class one of whose members was not built is never registered
\* under its own ID, and none of the members that follow the failed one
\* is built.
FailedClassNotRegistered ==
  \A h \in 1..Len(ir) :
    (ir[h].kind = "class_decl" /\ ~ir[h].declonly) =>
      \A p \in UnbuiltMembers(h) :
        /\ ~(ElementOf(h).id \in DOMAIN m_types_map
             /\ m_types_map[ElementOf(h).id] = h)
        /\ \A k \in 1..Len(ir) : ~BuiltAfter(k, h, p)

\* A class was read, in a build with assert() compiled in, whose first
\* member is a function template without ID, and the read went on.
ClassWithFailedMemberRead ==
  /\ ~ndebug
  /\ ~Died
  /\ \E h \in 1..Len(ir) :
       /\ ir[h].kind = "class_decl"
       /\ <<1, 1>> \in UnbuiltMembers(h)
       /\ ElementOf(h).kids[1].tag = "member-template"

\* The first element at or after the cursor, 0 when the stream has none.
FirstElement ==
  LET E == {j \in 1..Len(Stream) : j >= pos /\ Stream[j].k = "elem"}
  IN IF E = {} THEN 0 ELSE CHOOSE j \in E : \A k \in E : j <= k

\* The element a driver starts on has the tag it expects.
StartsOn(tag) ==
  /\ FirstElement # 0
  /\ Stream[FirstElement].node.tag = tag

TablesKept ==
  /\ m_types_map' = m_types_map
  /\ m_fn_tmpl_map' = m_fn_tmpl_map
  /\ m_class_tmpl_map' = m_class_tmpl_map

NoScopePushed ==
  /\ ir' = ir
  /\ Len(m_decls_stack') <= Len(m_decls_stack)
  /\ m_decls_stack' = SubSeq(m_decls_stack, 1, Len(m_decls_stack'))

\* C28: a driver whose stream does not start on the root it expects, or has
\* no element left, reports failure and leaves the identifier tables, the
\* scope stack and the path and address size of the unit or corpus alone.
WrongRootChangesNothing ==
  [][/\ (pc = "unit_begin" /\ ~StartsOn("abi-instr"))
          => /\ pc' = "unit_end"
             /\ is_ok' = FALSE
             /\ TablesKept
             /\ NoScopePushed
             /\ tu_paths' = tu_paths
             /\ tu_has_address_size' = tu_has_address_size
     /\ (pc = "corpus_begin" /\ ~StartsOn("abi-corpus"))
          => /\ pc' = "done"
             /\ result' = "false"
             /\ TablesKept
             /\ NoScopePushed
             /\ corp_path' = corp_path
             /\ corp' = corp]_vars

\* The second unit of a corpus was refused on a root that carries a path
\* and an address size, the tables holding the types of the first unit.
WrongRootAfterAUnit ==
  /\ mode = "corpus"
  /\ pc = "unit_end"
  /\ ~is_ok
  /\ tu = 2
  /\ m_types_map # EmptyMap
  /\ NodeType(Stream, pos) = "elem"
  /\ Stream[pos].node.tag = "abi-corpus"
  /\ Stream[pos].node.path # <<>>
  /\ HasAttribute(Stream[pos].node, "address-size")
  /\ tu_paths[2] = ""
  /\ ~tu_has_address_size[2]

\* The context with the three tables the step leaves.
CtxAfter ==
  [Ctx EXCEPT !.types = m_types_map', !.fns = m_fn_tmpl_map',
              !.cls = m_class_tmpl_map']

\* The entry the step adds to the history.
LastCall == log'[Len(log')]

TypesUntouched ==
  /\ m_types_map' = m_types_map
  /\ \A id \in RegIds : get_type_decl(CtxAfter, id) = get_type_decl(Ctx, id)

FnTmplsUntouched ==
  /\ m_fn_tmpl_map' = m_fn_tmpl_map
  /\ \A id \in RegIds :
       get_fn_tmpl_decl(CtxAfter, id) = get_fn_tmpl_decl(Ctx, id)

ClassTmplsUntouched ==
  /\ m_class_tmpl_map' = m_class_tmpl_map
  /\ \A id \in RegIds :
       get_class_tmpl_decl(CtxAfter, id) = get_class_tmpl_decl(Ctx, id)

\* C29: the three tables are disjoint mappings: a registration in one of
\* them leaves the contents and the lookups of the other two as they were,
\* and it is accepted exactly when its own table does not hold the ID,
\* whatever the other two hold.
RegistriesAreDisjoint ==
  [][/\ (Called("key_type_decl") \/ Called("key_replacement_of_type_decl"))
          => FnTmplsUntouched /\ ClassTmplsUntouched
     /\ Called("key_type_decl")
          => /\ LastCall.ret = (LastCall.id \notin DOMAIN m_types_map)
             /\ LastCall.ret
                  => get_type_decl(CtxAfter, LastCall.id) = LastCall.node
     /\ Called("key_fn_tmpl_decl")
          => /\ TypesUntouched /\ ClassTmplsUntouched
             /\ LastCall.ret = (LastCall.id \notin DOMAIN m_fn_tmpl_map)
             /\ LastCall.ret
                  => get_fn_tmpl_decl(CtxAfter, LastCall.id) = LastCall.node
     /\ Called("key_class_tmpl_decl")
          => /\ TypesUntouched /\ FnTmplsUntouched
             /\ LastCall.ret = (LastCall.id \notin DOMAIN m_class_tmpl_map)
             /\ LastCall.ret
                  => get_class_tmpl_decl(CtxAfter, LastCall.id) = LastCall.node
     /\ Called("clear_type_map")
          => FnTmplsUntouched /\ ClassTmplsUntouched]_vars

\* One ID is registered in each of the three tables, the three calls
\* having succeeded, and not under the same node everywhere.
OneIdInThreeTables ==
  /\ mode = "registry"
  /\ Len(log) = 3
  /\ \A i \in 1..3 : log[i].ret /\ log[i].id = log[1].id
  /\ {log[i].op : i \in 1..3}
       = {"key_type_decl", "key_fn_tmpl_decl", "key_class_tmpl_decl"}
  /\ get_type_decl(Ctx, log[1].id) # NULL
  /\ get_fn_tmpl_decl(Ctx, log[1].id) # NULL
  /\ get_class_tmpl_decl(Ctx, log[1].id) # NULL
  /\ get_type_decl(Ctx, log[1].id) # get_fn_tmpl_decl(Ctx, log[1].id)

\* The class h was built from an element that is declaration-only and
\* whose def-of-decl-id is the ID of a declaration-only class built before.
BuiltFromStubDefiningAStub(h) ==
  /\ ir[h].kind = "class_decl"
  /\ ElementOf(h).declonly
  /\ ElementOf(h).defid # NoId
  /\ \E d \in 1..(h - 1) :
       /\ ir[d].kind = "class_decl"
       /\ ir[d].declonly
       /\ ir[d].tu = ir[h].tu
       /\ ElementOf(d).id = ElementOf(h).defid

\* C30: a class-decl that is declaration-only and names a registered
\* declaration-only class in def-of-decl-id is rejected: no class is built
\* from it.
StubDefiningAStubRejected ==
  mode = "unit" => \A h \in 1..Len(ir) : ~BuiltFromStubDefiningAStub(h)

\* No class node is both declaration-only and the definition of an
\* earlier declaration.
NoNodeIsStubAndDefinition ==
  \A h \in 1..Len(ir) : ~(ir[h].declonly /\ ir[h].earlier # NULL)

\* Such an element was read to the end of its unit with success: its stub
\* sits in the scope and is registered under its own ID.
StubDefiningAStubRegistered ==
  /\ mode = "unit"
  /\ pc = "unit_end"
  /\ is_ok
  /\ \E h \in 1..Len(ir) :
       /\ BuiltFromStubDefiningAStub(h)
       /\ ir[h].scope # NULL
       /\ get_type_decl(Ctx, ElementOf(h).id) = h

\* The step is an advance_cursor of the unit loop that read an element.
ElementRead ==
  /\ pc = "advance"
  /\ pos' > pos
  /\ NodeType(Stream, pos') = "elem"

\* C31: update_depth_info_of_read_context with a depth greater than the
\* recorded one leaves the scope stack and the three tables as they were
\* and records the new depth.
DescentOnlyRecordsDepth ==
  [][(ElementRead /\ Depth(Stream[pos']) > m_depth)
       => /\ m_decls_stack' = m_decls_stack
          /\ TablesKept
          /\ ir' = ir
          /\ m_depth' = Depth(Stream[pos'])]_vars

\* The reader stands on the first child of a namespace, one level below
\* the depth recorded before, and the namespace is still the top of the
\* stack of two scopes.
DescendedIntoNamespace ==
  /\ pc = "handle"
  /\ Depth(Cur) = 2
  /\ m_depth = 2
  /\ Len(m_decls_stack) = 2
  /\ ir[m_decls_stack[2]].kind = "namespace_decl"
  /\ ir[m_decls_stack[2]].elem = SubSeq(Cur.path, 1, 1)
  /\ m_types_map # EmptyMap

\* The number of entries the loop pops from the stack stk with nb pops
\* left: one per round while the stack has entries, a round that pops an
\* entry at class scope with more than 2 left counting for two.
RECURSIVE Popped(_, _)
Popped(stk, nb) ==
  IF nb <= 0 \/ stk = <<>> THEN 0
  ELSE 1 + Popped(SubSeq(stk, 1, Len(stk) - 1),
                  IF /\ ir[stk[Len(stk)]].scope # NULL
                     /\ ir[ir[stk[Len(stk)]].scope].kind = "class_decl"
                     /\ nb > 2
                    THEN nb - 2 ELSE nb - 1)

\* C32: update_depth_info_of_read_context with a depth d not greater than
\* the recorded d0 pops d0 - d + 1 entries less one for each entry popped
\* at class scope with more than 2 pops left, nothing once the stack is
\* empty, never more than d0 - d + 1, and records d.
PopsFollowDepth ==
  [][(ElementRead /\ Depth(Stream[pos']) <= m_depth)
       => /\ Len(m_decls_stack') <= Len(m_decls_stack)
          /\ m_decls_stack' = SubSeq(m_decls_stack, 1, Len(m_decls_stack'))
          /\ Len(m_decls_stack) - Len(m_decls_stack')
               = Popped(m_decls_stack, m_depth - Depth(Stream[pos']) + 1)
          /\ Len(m_decls_stack) - Len(m_decls_stack')
               <= m_depth - Depth(Stream[pos']) + 1
          /\ TablesKept
          /\ m_depth' = Depth(Stream[pos'])]_vars

\* The reader went from a member held three levels deep to an element of
\* the first level: of the three levels, the member at class scope and its
\* class were popped and the global scope is left.
MemberAndClassPopped ==
  /\ pc = "handle"
  /\ Depth(Cur) = 1
  /\ m_depth = 1
  /\ Len(m_decls_stack) = 1
  /\ ir # <<>>
  /\ ir[Len(ir)].kind = "var_decl"
  /\ Len(ir[Len(ir)].elem) = 3
  /\ is_at_class_scope(Ctx, Len(ir))
  /\ Len(ir[Len(ir)].stk) = 2
  /\ ir[Len(ir)].stk[1] = m_decls_stack[1]

\* The indices in the stream s of the elements that sit directly under the
\* unit or under a namespace and that handle_element has a handler for.
TopLevelElements(s) ==
  {e \in 1..Len(s) :
     /\ s[e].k = "elem"
     /\ s[e].path # <<>>
     /\ s[e].node.tag \in HandledTags
     /\ \A k \in 0..(Len(s[e].path) - 1) :
          ElementAt(s, SubSeq(s[e].path, 1, k)).tag
            \in {"abi-instr", "namespace-decl"}}

\* The unit reader returned true for the only unit of the run.
UnitReadToItsEnd == mode = "unit" /\ pc = "unit_end" /\ is_ok

\* C33: after a handler consumed the subtree of its element the driver
\* goes on with the element that follows the subtree: when the unit has
\* been read, every element directly under the unit or a namespace has been
\* dispatched, a node standing for it, whether or not text separates the
\* elements.
EveryElementDispatched ==
  UnitReadToItsEnd =>
    \A e \in TopLevelElements(Stream) :
      \E h \in 1..Len(ir) : ir[h].elem = Stream[e].path

\* The same, for the documents written with whitespace between elements.
EveryElementDispatchedWhenPretty == IsPretty => EveryElementDispatched

\* No element is dispatched or built twice.
NoElementDispatchedTwice ==
  \A h1 \in 1..Len(ir), h2 \in 1..Len(ir) :
    (ir[h1].elem = ir[h2].elem /\ ir[h1].tu = ir[h2].tu) => h1 = h2

\* A unit with an element right behind a consumed subtree, no text in
\* between, was read and the reader returned true.
UnitWithAdjacentElementsRead ==
  /\ UnitReadToItsEnd
  /\ ~IsPretty
  /\ \E e \in TopLevelElements(Stream) :
       /\ e > 2
       /\ Stream[e - 1].k = "elem"
       /\ Stream[e - 1].empty
       /\ Stream[e - 1].node.tag = "type-decl"
       /\ \E h \in 1..Len(ir) : ir[h].elem = Stream[e - 1].path

\* The step accepts the root of a unit of an abi-corpus after the first.
LaterUnitEntered ==
  /\ mode = "corpus"
  /\ tu > 1
  /\ pc = "unit_begin"
  /\ pc' = "advance"

\* C34: when the driver of an abi-corpus starts a unit after the first,
\* the stack is empty before the global scope of the unit is pushed: that
\* scope is the only entry then, and get_translation_unit yields the new
\* unit.
LaterUnitStartsOnEmptyStack ==
  [][LaterUnitEntered
       => /\ m_decls_stack = <<>>
          /\ Len(m_decls_stack') = 1
          /\ ir'[m_decls_stack'[1]].kind = "global_scope"
          /\ ir'[m_decls_stack'[1]].tu = tu
          /\ get_translation_unit(
               [Ctx EXCEPT !.stack = m_decls_stack', !.ir = ir']) = tu]_vars

\* The second unit of a corpus has been entered after a first unit that
\* held a class with a member.
SecondUnitEnteredAfterAClass ==
  /\ mode = "corpus"
  /\ tu = 2
  /\ pc = "advance"
  /\ NodeType(Stream, pos) = "elem"
  /\ Cur.node.tag = "abi-instr"
  /\ get_translation_unit(Ctx) = 2
  /\ \E h \in 1..Len(ir) :
       /\ ir[h].tu = 1
       /\ is_at_class_scope(Ctx, h)

TemplateDeclTags == {"function-template-decl", "class-template-decl"}

\* The places <<i, j>> of the templates wrapped in the member-template
\* children of the element of the class h.
MemberTemplatesOf(h) ==
  UNION {{<<i, j>> : j \in {y \in 1..Len(ElementOf(h).kids[i].kids) :
                              ElementOf(h).kids[i].kids[y].tag
                                \in TemplateDeclTags}} :
           i \in {x \in 1..Len(ElementOf(h).kids) :
                    ElementOf(h).kids[x].tag = "member-template"}}

\* The class h is registered under the ID of its element.
RegisteredClass(h) ==
  /\ ir[h].kind = "class_decl"
  /\ ~ir[h].declonly
  /\ ElementOf(h).id \in DOMAIN m_types_map
  /\ m_types_map[ElementOf(h).id] = h

\* No node was built from the template at the place p of the class h: its
\* builder returned nil on its ID.
DroppedTemplate(h, p) ==
  \A k \in 1..Len(ir) : ir[k].tu = ir[h].tu => ir[k].elem # ir[h].elem \o p

\* C35: a template declaration whose ID is empty or registered already is
\* an error wherever it stands: no class is built and registered while
\* one of its member templates was dropped.
MemberTemplateNeverDropped ==
  mode = "unit" =>
    \A h \in 1..Len(ir) :
      RegisteredClass(h) => \A p \in MemberTemplatesOf(h) : ~DroppedTemplate(h, p)

\* handle_element is on a template whose ID is empty or registered.
OnTemplateWithBadId ==
  /\ pc = "handle"
  /\ \/ /\ Cur.node.tag = "function-template-decl"
        /\ (Cur.node.id = NoId \/ Cur.node.id \in DOMAIN m_fn_tmpl_map)
     \/ /\ Cur.node.tag = "class-template-decl"
        /\ (Cur.node.id = NoId \/ Cur.node.id \in DOMAIN m_class_tmpl_map)

\* Directly in a unit or a namespace such a template ends the run: the
\* handler returns false and the driver calls abort().
TopLevelTemplateEndsRun ==
  [][OnTemplateWithBadId => (pc' = "aborted" /\ TablesKept)]_vars

\* A unit was read with success whose class holds, as member template, a
\* function template with the ID of a function template registered
\* before; the class is registered.
ClassWithDuplicateMemberTemplateRead ==
  /\ UnitReadToItsEnd
  /\ \E h \in 1..Len(ir) :
       /\ RegisteredClass(h)
       /\ \E p \in MemberTemplatesOf(h) :
            /\ DroppedTemplate(h, p)
            /\ ElementOf(h).kids[p[1]].kids[p[2]].tag = "function-template-decl"
            /\ ElementOf(h).kids[p[1]].kids[p[2]].id \in DOMAIN m_fn_tmpl_map

\* C36: the empty string is never a key of the table of types: a type
\* element without id registers nothing.
EmptyIdNeverRegistered == NoId \notin DOMAIN m_types_map

\* The same in the builds that keep assert(), for the elements other than
\* type-decl, class-decl and enum-decl.
EmptyIdOfReferrerAsserted ==
  (NoId \in DOMAIN m_types_map /\ ~ndebug)
    => ir[m_types_map[NoId]].kind \in {"type_decl", "class_decl", "enum_type_decl"}

\* A unit whose type-decl has no id was read with success, in a build
\* that keeps assert(), and the type is registered under the empty ID.
TypeWithoutIdRegistered ==
  /\ UnitReadToItsEnd
  /\ ~ndebug
  /\ NoId \in DOMAIN m_types_map
  /\ ir[m_types_map[NoId]].kind = "type_decl"
  /\ ElementOf(m_types_map[NoId]).id = NoId

\* The IR class built from each of the four elements that refer to a type.
KindOfReferrer(tag) ==
  CASE tag = "qualified-type-def" -> "qualified_type_def"
    [] tag = "pointer-type-def" -> "pointer_type_def"
    [] tag = "reference-type-def" -> "reference_type_def"
    [] tag = "typedef-decl" -> "typedef_decl"

\* handle_element is on one of these four elements.
OnReferrer ==
  /\ pc = "handle"
  /\ Cur.node.tag \in ReferringTags

\* What the handler of the element under the cursor leaves, and what its
\* builder called with add_to_current_scope leaves in the same state.
Handled ==
  handle_referring_type(Ctx, Cur.node, Cur.path, KindOfReferrer(Cur.node.tag))

Built ==
  build_referring_type(Ctx, Cur.node, Cur.path, FALSE, TRUE, Cur.node.tag,
                       KindOfReferrer(Cur.node.tag))

\* The two agree on the tables, the stack, the end of the process and on
\* whether they succeed.
SameOutcome ==
  /\ Handled.types = Built.types
  /\ Handled.stack = Built.stack
  /\ Handled.depth = Built.depth
  /\ Handled.st = Built.st
  /\ Live(Handled) => (Handled.okb = (Built.ret # NULL))
  /\ Len(Handled.ir) = Len(Built.ir)

\* C37: for qualified-type-def, pointer-type-def, reference-type-def and
\* typedef-decl the handler and the builder do the same on the same element
\* in the same state: same registration, same node pushed with the same
\* fields, its location included, same success or failure.
HandlerEqualsBuilder ==
  OnReferrer => (SameOutcome /\ Handled.ir = Built.ir)

\* What holds instead: the two agree on everything but the location of
\* the node, and on the location as well unless the element has a
\* filepath without a line or a column.
HandlerEqualsBuilderButForLocation ==
  OnReferrer =>
    /\ SameOutcome
    /\ \A h \in 1..Len(Handled.ir) :
         [Handled.ir[h] EXCEPT !.loc = UnknownLocation]
           = [Built.ir[h] EXCEPT !.loc = UnknownLocation]
    /\ ~HalfLocated(Cur.node) => Handled.ir = Built.ir

\* handle_element is on a pointer-type-def that has a filepath and no line
\* or no column, names a registered type and brings a new ID.
OnHalfLocatedReferrer ==
  /\ OnReferrer
  /\ HalfLocated(Cur.node)
  /\ get_type_decl(Ctx, Cur.node.tid) # NULL
  /\ Cur.node.id # NoId
  /\ get_type_decl(Ctx, Cur.node.id) = NULL
  /\ Live(Handled)
  /\ Handled.okb

\* The tags of the elements that have a builder, the candidates of
\* build_type and those of build_template_parameter.
TypeCandidates ==
  {"type-decl", "qualified-type-def", "pointer-type-def",
   "reference-type-def", "enum-decl", "typedef-decl", "class-decl"}

BuilderTags ==
  TypeCandidates \cup TemplateParameterTags \cup TemplateDeclTags
    \cup {"parameter", "function-decl", "var-decl"}

\* The builder of the elements named tag, called on the element n found
\* at path in the context c.
Build(tag, c, n, path) ==
  CASE tag = "parameter" -> build_function_parameter(c, n, path)
    [] tag = "function-decl" -> build_function_decl(c, n, path, NULL, TRUE, TRUE)
    [] tag = "var-decl" -> build_var_decl(c, n, path, TRUE, TRUE)
    [] tag = "type-decl" -> build_type_decl(c, n, path, TRUE, TRUE)
    [] tag = "qualified-type-def" ->
         build_qualified_type_decl(c, n, path, TRUE, TRUE)
    [] tag = "pointer-type-def" -> build_pointer_type_def(c, n, path, TRUE, TRUE)
    [] tag = "reference-type-def" ->
         build_reference_type_def(c, n, path, TRUE, TRUE)
    [] tag = "enum-decl" -> build_enum_type_decl(c, n, path, TRUE, TRUE)
    [] tag = "typedef-decl" -> build_typedef_decl(c, n, path, TRUE, TRUE)
    [] tag = "class-decl" -> build_class_decl(c, n, path, TRUE, TRUE)
    [] tag = "function-template-decl" ->
         build_function_tdecl(c, n, path, TRUE, TRUE)
    [] tag = "class-template-decl" -> build_class_tdecl(c, n, path, TRUE, TRUE)
    [] tag = "template-type-parameter" ->
         build_type_tparameter(c, n, path, 0, TRUE)
    [] tag = "template-non-type-parameter" ->
         build_non_type_tparameter(c, n, path, 0, TRUE)
    [] tag = "template-template-parameter" ->
         build_template_tparameter(c, n, path, 0, TRUE)
    [] tag = "template-parameter-type-composition" ->
         build_type_composition(c, n, path, 0, TRUE)

\* The context c with nil returned: nothing else of it is changed.
NotApplicable(c) == [c EXCEPT !.ret = NULL]

\* The elements of the document being read.
ElementsRead == {e \in 1..Len(Stream) : Stream[e].k = "elem"}

\* C38: a builder called on an element that does not bear its tag returns
\* nil and changes nothing; so at most one candidate of build_type and of
\* build_template_parameter builds a node from an element, and an element
\* that is no candidate's leaves the state as it was.
ForeignTagChangesNothing ==
  pc = "handle" =>
    \A e \in ElementsRead :
      /\ \A t \in BuilderTags \ {Stream[e].node.tag} :
           Build(t, Ctx, Stream[e].node, Stream[e].path) = NotApplicable(Ctx)
      /\ Stream[e].node.tag \notin TypeCandidates
           => build_type(Ctx, Stream[e].node, Stream[e].path, TRUE, TRUE)
                = NotApplicable(Ctx)
      /\ Stream[e].node.tag \notin TemplateParameterTags
           => build_template_parameter(Ctx, Stream[e].node, Stream[e].path,
                                       0, TRUE)
                = NotApplicable(Ctx)
      /\ Stream[e].node.tag \in TypeCandidates
           => build_type(Ctx, Stream[e].node, Stream[e].path, TRUE, TRUE)
                = Build(Stream[e].node.tag, Ctx, Stream[e].node, Stream[e].path)
      /\ Stream[e].node.tag \in TemplateParameterTags
           => build_template_parameter(Ctx, Stream[e].node, Stream[e].path,
                                       0, TRUE)
                = Build(Stream[e].node.tag, Ctx, Stream[e].node, Stream[e].path)

\* A class was built whose data-member wraps a type-decl: build_var_decl
\* was called on it, nothing was built from it and the read went on.
ForeignElementLeftAlone ==
  /\ pc = "advance"
  /\ \E h \in 1..Len(ir) :
       /\ RegisteredClass(h)
       /\ <<1, 1>> \in UnbuiltMembers(h)
       /\ ElementOf(h).kids[1].tag = "data-member"
       /\ ElementOf(h).kids[1].kids[1].tag = "type-decl"
       /\ ir[h].mbrs # <<>>

\* The abi-instr elements of the stream s.
RECURSIVE NbOfAbiInstr(_)
NbOfAbiInstr(s) ==
  IF s = <<>> THEN 0
  ELSE NbOfAbiInstr(Tail(s))
         + (IF Head(s).k = "elem" /\ Head(s).node.tag = "abi-instr" THEN 1 ELSE 0)

\* The run is over: the entry point returned, or the process was ended by
\* abort(), a failed assert() or a fault.
Returned == pc = "done"

\* C39: on a finite stream read_corpus_from_input eventually returns.
CorpusReaderReturns == (mode = "corpus") ~> Returned

\* Every run of a driver ends, by a return or by the end of the process.
EveryRunEnds == <>(Returned \/ Died)

\* Each iteration of the loop of read_translation_unit_from_input moves
\* the cursor forward, a handler never moves it back, and each unit read
\* by read_corpus_from_input begins after the point the one before began.
CursorOnlyAdvances ==
  [][/\ (pc = "advance" /\ mode # "archive") => pos' > pos
     /\ (pc = "handle" /\ mode # "archive") => pos' >= pos
     /\ (pc = "unit_begin" /\ mode = "corpus") => pos' >= pos]_vars

\* The corpus never holds more units than the stream has abi-instr
\* elements.
UnitsBoundedByAbiInstr ==
  mode = "corpus" => Len(corp) <= NbOfAbiInstr(Stream)

\* read_corpus_from_input is in a unit of an abi-corpus and the process is
\* ended there: an element of the unit is not one the reader knows.
CorpusReaderAborted ==
  /\ mode = "corpus"
  /\ pc = "aborted"
  /\ Len(corp) >= 1

====
